---- MODULE Spec2Model ----
(***************************************************************************)
(* Model of the localserver connection engine: route selection, path       *)
(* resolution, response producers and the per-connection state machine.    *)
(* Strings are sequences of one-character strings, so that prefix tests,   *)
(* trimming and splitting are computed the way the Rust code computes them.*)
(***************************************************************************)
EXTENDS Integers, Sequences, FiniteSets, TLC

VARIABLES
    \* ---- route selection (read.rs find_matching_route, router.rs find_route)
    rt_routes,      \* Vec<Route> of the server: a sequence of route paths
    rt_path,        \* the request path
    rt_sel,         \* index chosen by find_matching_route (0 = None), -1 = not yet run
    rt_old,         \* index chosen by Router::find_route (0 = None), -1 = not yet run
    \* ---- one connection (server.rs SocketData / SocketStatus)
    conn,           \* the connection record: phase, request builder, response, latches
    sent,           \* bytes the socket accepted for the installed response, as runs
    result,         \* what the last handler call returned
    net,            \* the peer: the request it is sending, what is left of it
    did,            \* the dispatch made for the request being answered
    \* ---- one run of a function on its own: the dispatch of a complete
    \* ---- request (read.rs handle_read_state), the builder of request.rs fed
    \* ---- with a byte stream
    px_in,          \* the input: server, request, environment; or the stream
    px_out,         \* the output: response and disk operations; or the builder
    \* ---- the event loop (server.rs Server::run)
    srv,            \* the Server: listeners, connections, next_token, and the
                    \* peers of the connections
    now             \* the clock Instant::now() reads, in ticks

routeVars == <<rt_routes, rt_path, rt_sel, rt_old>>
connVars == <<conn, sent, result, net, did>>
pathVars == <<px_in, px_out>>
loopVars == <<srv, now>>

vars == <<routeVars, connVars, pathVars, loopVars>>

\* the element of a one-element set
The(S) == CHOOSE x \in S : TRUE

\* Option::None of a record-valued slot
NoneRec == [kind |-> "None"]

\* Option<bool> results of the handlers
SomeTrue == "Some(true)"
SomeFalse == "Some(false)"
RNone == "None"

\* byte length of the Set-Cookie value of the session cookie
CookieLen == 8

\* ------------------------------------------------------------------ strings

\* str::starts_with
StartsWith(s, p) == Len(p) <= Len(s) /\ SubSeq(s, 1, Len(p)) = p

\* str::ends_with
EndsWith(s, p) == Len(p) <= Len(s) /\ SubSeq(s, Len(s) - Len(p) + 1, Len(s)) = p

\* str::strip_prefix(p).unwrap_or("")
StripPrefixOrEmpty(s, p) ==
    IF StartsWith(s, p) THEN SubSeq(s, Len(p) + 1, Len(s)) ELSE <<>>

\* str::trim_start_matches(c)
RECURSIVE TrimStartMatches(_, _)
TrimStartMatches(s, c) ==
    IF s /= <<>> /\ Head(s) = c THEN TrimStartMatches(Tail(s), c) ELSE s

\* str::trim_end_matches(c)
RECURSIVE TrimEndMatches(_, _)
TrimEndMatches(s, c) ==
    IF s /= <<>> /\ s[Len(s)] = c
    THEN TrimEndMatches(SubSeq(s, 1, Len(s) - 1), c) ELSE s

\* str::trim_matches(c)
TrimMatches(s, c) == TrimEndMatches(TrimStartMatches(s, c), c)

\* str::split(c): the sequence of pieces between occurrences of c
RECURSIVE SplitAcc(_, _, _, _)
SplitAcc(s, c, cur, acc) ==
    IF s = <<>> THEN Append(acc, cur)
    ELSE IF Head(s) = c THEN SplitAcc(Tail(s), c, <<>>, Append(acc, cur))
    ELSE SplitAcc(Tail(s), c, Append(cur, Head(s)), acc)

Split(s, c) == SplitAcc(s, c, <<>>, <<>>)

\* ---------------------------------------------------------- route selection

\* Iterator::max_by_key over the positions kept by a filter: the LAST
\* position of maximal key among the kept ones, 0 when none is kept.
MaxByKeyLen(routes, kept) ==
    IF kept = {} THEN 0
    ELSE CHOOSE i \in kept :
            \A j \in kept : Len(routes[j]) < Len(routes[i])
                            \/ (Len(routes[j]) = Len(routes[i]) /\ j <= i)

\* read.rs find_matching_route: the filter closure
find_matching_filter(route_path, request_path) ==
    IF route_path = <<"/">> THEN TRUE
    ELSE request_path = route_path
         \/ StartsWith(request_path, route_path \o <<"/">>)

find_matching_route(routes, request_path) ==
    MaxByKeyLen(routes,
        {i \in 1..Len(routes) : find_matching_filter(routes[i], request_path)})

\* handler.rs handle_get, lines 18-23: Iterator::find, the FIRST route whose
\* path, trimmed of `/`, is the request path trimmed of `/`; 0 when none is
find_exact_route(routes, request_path) ==
    LET hits == {i \in 1..Len(routes) :
                    TrimMatches(routes[i], "/") = TrimMatches(request_path, "/")}
    IN IF hits = {} THEN 0 ELSE CHOOSE i \in hits : \A j \in hits : i <= j

\* router.rs Router::find_route
find_route(config_routes, path) ==
    MaxByKeyLen(config_routes,
        {i \in 1..Len(config_routes) : StartsWith(path, config_routes[i])})

\* Inputs of the route-selection specification.
MaxRoutes == 3

RoutePaths ==
    { <<"/">>, <<"/", "a">>, <<"/", "a", "/">>, <<"/", "a", "b">>,
      <<"/", "a", "/", "b">> }

RequestPaths ==
    { <<"/">>, <<"/", "a">>, <<"/", "a", "b">>, <<"/", "a", "/">>,
      <<"/", "a", "/", "b">>, <<"/", "a", "/", "b", "/", "c">>,
      <<"/", "b">>, <<"*">> }

RouteLists == UNION { [1..n -> RoutePaths] : n \in 0..MaxRoutes }

IdleRoute ==
    /\ rt_routes = <<>>
    /\ rt_path = <<>>
    /\ rt_sel = -1
    /\ rt_old = -1

IdleConn ==
    /\ conn = NoneRec
    /\ sent = <<>>
    /\ result = RNone
    /\ net = NoneRec
    /\ did = NoneRec

IdlePath ==
    /\ px_in = NoneRec
    /\ px_out = NoneRec

IdleLoop ==
    /\ srv = NoneRec
    /\ now = 0

\* std::time::Instant::now()
Instant_now == now

InitRoute ==
    /\ rt_routes \in RouteLists
    /\ rt_path \in RequestPaths
    /\ rt_sel = -1
    /\ rt_old = -1
    /\ IdleConn
    /\ IdlePath
    /\ IdleLoop

RunFindMatchingRoute ==
    /\ rt_sel = -1
    /\ rt_sel' = find_matching_route(rt_routes, rt_path)
    /\ UNCHANGED <<rt_routes, rt_path, rt_old, connVars, pathVars, loopVars>>

RunFindRoute ==
    /\ rt_old = -1
    /\ rt_old' = find_route(rt_routes, rt_path)
    /\ UNCHANGED <<rt_routes, rt_path, rt_sel, connVars, pathVars, loopVars>>

\* handle_get looks up the route whose settings it applies
RunFindExactRoute ==
    /\ px_out = NoneRec
    /\ px_out' = [kind |-> "GetRoute",
                  route |-> find_exact_route(rt_routes, rt_path)]
    /\ UNCHANGED <<px_in, routeVars, connVars, loopVars>>

NextRoute == RunFindMatchingRoute \/ RunFindRoute \/ RunFindExactRoute

SpecRoute == InitRoute /\ [][NextRoute]_vars

\* A route path is a prefix of the request path on a segment boundary.
SegmentPrefix(route_path, request_path) ==
    /\ StartsWith(request_path, route_path)
    /\ \/ Len(request_path) = Len(route_path)
       \/ route_path[Len(route_path)] = "/"
       \/ request_path[Len(route_path) + 1] = "/"

\* The routes the claim counts as candidates: `/` always, the others on a
\* segment-boundary prefix.
Candidates(routes, request_path) ==
    {i \in 1..Len(routes) :
        routes[i] = <<"/">> \/ SegmentPrefix(routes[i], request_path)}

LongestPrefixChoice(routes, request_path, sel) ==
    LET cand == Candidates(routes, request_path) IN
    /\ (sel = 0) <=> (cand = {})
    /\ sel /= 0 => /\ sel \in cand
                   /\ \A j \in cand : Len(routes[j]) <= Len(routes[sel])

\* C9: the chosen route is a route of maximal path length among those whose
\* path is a prefix of the request path on a segment boundary, `/` is always
\* a candidate, and None is returned only when no route matches (both
\* selection functions).
C9_LongestPrefix ==
    /\ rt_sel /= -1 => LongestPrefixChoice(rt_routes, rt_path, rt_sel)
    /\ rt_old /= -1 => LongestPrefixChoice(rt_routes, rt_path, rt_old)

\* C10: a request path that only shares a string prefix with a route path,
\* with no `/` following it, never selects that route (both selection
\* functions).
C10_SegmentBoundary ==
    /\ rt_sel > 0 => rt_sel \in Candidates(rt_routes, rt_path)
    /\ rt_old > 0 => rt_old \in Candidates(rt_routes, rt_path)

\* --------------------------------------------------------------- filesystem
\* A filesystem path is a sequence of components, each a string (a sequence
\* of characters); <<>> is the root directory.  The tree below is what the
\* server finds on disk: its working directory /h, the server root /h/w, the
\* route roots /h/w/s and /h/w/s/d, files inside and outside them, a symlink
\* to a directory outside and a symlink whose target does not exist; /h/s is
\* the route root as Router::serve_static takes it, without the server root.

N(c) == <<c>>

Cwd == <<N("h")>>

Dirs ==
    { <<>>, <<N("h")>>, <<N("h"), N("w")>>, <<N("h"), N("w"), N("s")>>,
      <<N("h"), N("w"), N("s"), N("d")>>, <<N("h"), N("e")>>, <<N("t")>>,
      <<N("h"), N("s")>> }

Files ==
    { <<N("h"), N("w"), N("s"), N("i")>>,          \* /h/w/s/i
      <<N("h"), N("w"), N("s"), N("d"), N("f")>>,  \* /h/w/s/d/f
      <<N("h"), N("w"), N("x")>>,                  \* /h/w/x   (outside the route roots)
      <<N("t"), N("p")>>,                          \* /t/p     (outside the server root)
      <<N("h"), N("e"), N("4")>>,                  \* /h/e/4   (the 404 page)
      <<N("h"), N("s"), N("i")>> }                 \* /h/s/i

\* symlink |-> target
Links ==
    { [at |-> <<N("h"), N("w"), N("s"), N("l")>>, to |-> <<N("t")>>],
      [at |-> <<N("h"), N("w"), N("s"), N("g")>>, to |-> <<N("t"), N("n")>>] }

LinkAt(p) == IF \E l \in Links : l.at = p
             THEN (CHOOSE l \in Links : l.at = p).to
             ELSE p

IsLink(p) == \E l \in Links : l.at = p

Exists(p) == p \in Dirs \/ p \in Files

PathErr == [ok |-> FALSE, path |-> <<>>]

PathOk(p) == [ok |-> TRUE, path |-> p]

\* std::path::Path::components on a string: the pieces between `/`, empty
\* pieces and `.` dropped, `..` kept
Components(s) ==
    SelectSeq(Split(s, "/"), LAMBDA piece : piece /= <<>> /\ piece /= <<".">>)

IsAbsolute(s) == s /= <<>> /\ s[1] = "/"

\* Path::to_str of a path given by its components
RECURSIVE ToStr(_)
ToStr(comps) ==
    IF comps = <<>> THEN <<>>
    ELSE <<"/">> \o Head(comps) \o ToStr(Tail(comps))

PathToStr(comps) == IF comps = <<>> THEN <<"/">> ELSE ToStr(comps)

\* The kernel's walk from directory cur along comps, symlinks followed:
\* every component must exist, and all but the last must be directories.
RECURSIVE Walk(_, _)
Walk(cur, comps) ==
    IF comps = <<>> THEN PathOk(cur)
    ELSE IF cur \notin Dirs THEN PathErr
    ELSE IF Head(comps) = <<".", ".">>
         THEN Walk(IF cur = <<>> THEN cur ELSE SubSeq(cur, 1, Len(cur) - 1),
                   Tail(comps))
    ELSE LET Step(p) == IF Exists(p) THEN Walk(p, Tail(comps)) ELSE PathErr
         IN Step(LinkAt(Append(cur, Head(comps))))

\* std::fs::canonicalize (realpath) of a path string
canonicalize(s) ==
    IF s = <<>> THEN PathErr
    ELSE LET Walked(r) ==
                 IF r.ok /\ s[Len(s)] = "/" /\ r.path \notin Dirs THEN PathErr ELSE r
         IN Walked(Walk(IF IsAbsolute(s) THEN <<>> ELSE Cwd, Components(s)))

\* Path::starts_with, on components
PathStartsWith(p, base) ==
    Len(base) <= Len(p) /\ SubSeq(p, 1, Len(base)) = base

\* PathBuf::join of a canonical base and a relative string
PathJoin(base_path, relative) ==
    (IF base_path = <<>> THEN <<>> ELSE ToStr(base_path)) \o <<"/">> \o relative

\* ---------------------------------------------------------- read.rs (paths)

NoPath == [some |-> FALSE, path |-> <<>>]

SomePath(s) == [some |-> TRUE, path |-> s]

\* read.rs resolve_file_path
resolve_file_path(server_root, route_root, route_path, request_path) ==
    LET \* lines 36-41: the parent must canonicalize under the base
        ByParent(base_path, full_path, full_comps, canonical_parent) ==
            IF ~canonical_parent.ok THEN NoPath
            ELSE IF ~PathStartsWith(canonical_parent.path, base_path) THEN NoPath
            ELSE IF PathStartsWith(full_comps, base_path)
                 THEN SomePath(full_path)
                 ELSE NoPath
        Missing(base_path, full_path, full_comps) ==
            IF full_comps = <<>> THEN NoPath
            ELSE ByParent(base_path, full_path, full_comps,
                          Walk(<<>>, SubSeq(full_comps, 1, Len(full_comps) - 1)))
        \* lines 33-49
        Canon(base_path, full_path, canon) ==
            IF canon.ok
            THEN IF PathStartsWith(canon.path, base_path)
                 THEN SomePath(PathToStr(canon.path))
                 ELSE NoPath
            ELSE Missing(base_path, full_path, Components(full_path))
        Joined(base_path, full_path) ==
            Canon(base_path, full_path, canonicalize(full_path))
        \* lines 22-32
        Based(base_path) ==
            IF ~base_path.ok THEN NoPath
            ELSE Joined(base_path.path,
                        PathJoin(base_path.path,
                                 TrimStartMatches(
                                     StripPrefixOrEmpty(request_path, route_path),
                                     "/")))
    IN Based(canonicalize(server_root \o <<"/">> \o route_root))

\* ------------------------------------------------------- response producers
\* A byte of a response is named by where it comes from: "d" the in-memory
\* data of a SimpleResponse, "h" the header bytes of a FileResponse, "f" the
\* bytes of the file.  A slice is a run [src, lo, hi) of such bytes, so two
\* slices hold the same bytes when they are the same run.

Run(src, lo, hi) == [src |-> src, lo |-> lo, hi |-> hi]

RunLen(run) == run.hi - run.lo

\* number of decimal digits of format!("{}", n)
RECURSIVE Digits(_)
Digits(n) == IF n < 10 THEN 1 ELSE 1 + Digits(n \div 10)

\* models.rs SimpleResponse::new.  Of the bytes of data the model keeps their
\* number, the status code they start with, the value of the Content-Length
\* header among them (none: <<>>) and the number of them after the blank line.
SimpleResponse_new(code, data_len) ==
    [kind |-> "Simple", code |-> code, data_len |-> data_len, index |-> 0,
     content_length |-> <<>>, body_len |-> 0]

\* models.rs FileResponse::new, for a file that opens: the header is
\* "HTTP/1.1 200 OK\r\nContent-Length: {}\r\nContent-Type: {}\r\nSet-Cookie: {}\r\n\r\n"
FileResponse_new(file_len, type_len, cookie_len) ==
    [kind |-> "File", code |-> 200,
     content_length |-> file_len,
     headers_len |-> 67 + Digits(file_len) + type_len + cookie_len,
     headers_index |-> 0, headers_sent |-> FALSE,
     file_len |-> file_len, readable |-> TRUE, reader_pos |-> 0,
     buf_src |-> 0, buf_len |-> 0, buf_index |-> 0, finished |-> FALSE]

\* size of FileResponse::buffer
BufferSize == 8192

\* Mutant of fill_buffer: a read that does not fill the buffer is taken for
\* the end of the file.
fill_buffer_ShortIsEof(r, n) ==
    IF r.buf_index >= r.buf_len /\ ~r.finished
    THEN [r EXCEPT !.buf_src = r.reader_pos, !.reader_pos = r.reader_pos + n,
                   !.buf_index = 0, !.buf_len = n,
                   !.finished = (n < BufferSize)]
    ELSE r

\* models.rs FileResponse::fill_buffer; n is what reader.read returned
fill_buffer(r, n) ==
    IF r.buf_index >= r.buf_len /\ ~r.finished
    THEN [r EXCEPT !.buf_src = r.reader_pos, !.reader_pos = r.reader_pos + n,
                   !.buf_index = 0, !.buf_len = n,
                   !.finished = (n = 0)]
    ELSE r

\* Mutant of fill_if_needed: the buffer is filled whether or not the headers
\* have been sent.
fill_if_needed_BeforeHeaders(r, n) ==
    IF r.kind = "Simple" THEN r
    ELSE IF r.buf_index >= r.buf_len /\ ~r.finished
         THEN fill_buffer(r, n)
         ELSE r

\* HttpResponseCommon::fill_if_needed
fill_if_needed(r, n) ==
    IF r.kind = "Simple" THEN r
    ELSE IF r.headers_sent /\ r.buf_index >= r.buf_len /\ ~r.finished
         THEN fill_buffer(r, n)
         ELSE r

\* HttpResponseCommon::peek
peek(r) ==
    IF r.kind = "Simple" THEN Run("d", r.index, r.data_len)
    ELSE IF ~r.headers_sent THEN Run("h", r.headers_index, r.headers_len)
    ELSE Run("f", r.buf_src + r.buf_index, r.buf_src + r.buf_len)

\* Mutant of next: the buffer index is set to n instead of advanced by n.
next_SetIndex(r, n) ==
    IF r.kind = "Simple" THEN [r EXCEPT !.index = r.index + n]
    ELSE IF ~r.headers_sent
         THEN [r EXCEPT !.headers_index = r.headers_index + n,
                        !.headers_sent = (r.headers_index + n >= r.headers_len)]
         ELSE [r EXCEPT !.buf_index = n]

\* HttpResponseCommon::next
next(r, n) ==
    IF r.kind = "Simple" THEN [r EXCEPT !.index = r.index + n]
    ELSE IF ~r.headers_sent
         THEN [r EXCEPT !.headers_index = r.headers_index + n,
                        !.headers_sent = (r.headers_index + n >= r.headers_len)]
         ELSE [r EXCEPT !.buf_index = r.buf_index + n]

\* HttpResponseCommon::is_finished
is_finished(r) ==
    IF r.kind = "Simple" THEN r.index >= r.data_len
    ELSE r.headers_sent /\ r.finished /\ r.buf_index >= r.buf_len

\* Whether fill_if_needed performs a file read on r.
NeedsRead(r) ==
    r.kind = "File" /\ r.headers_sent /\ r.buf_index >= r.buf_len /\ ~r.finished

\* A short read returns this many bytes when more are left in the file.
ShortRead == 4096

\* What reader.read(&mut buffer) can return: 0 at end of file, else up to
\* BufferSize bytes of what is left (all of it, or a short read), or an error
\* (always an error when the handle is a directory's).
FillOutcomes(r) ==
    IF ~NeedsRead(r) THEN { [k |-> "Ok", n |-> 0] }
    ELSE IF ~r.readable THEN { [k |-> "Err", n |-> 0] }
    ELSE LET left == r.file_len - r.reader_pos
             full == IF left < BufferSize THEN left ELSE BufferSize
         IN  { [k |-> "Ok", n |-> full], [k |-> "Err", n |-> 0] }
             \cup (IF left > ShortRead THEN { [k |-> "Ok", n |-> ShortRead] } ELSE {})

\* What stream.write(data) can return for len bytes offered: the socket takes
\* all of them or part bytes.
WriteOutcomes(len, part) ==
    { [k |-> "WouldBlock", n |-> 0], [k |-> "Err", n |-> 0], [k |-> "Ok", n |-> 0] }
    \cup { [k |-> "Ok", n |-> m] : m \in {part, len} \cap (1..len) }

\* ------------------------------------------------- filesystem operations
\* What the handlers do to the disk.  Each operation returns whether it
\* succeeded and the canonical place of the object it touched.

\* May the process create a file in directory d?  Directories outside the
\* server's working directory are writable when the server is privileged.
MayCreateIn(d, privileged) == PathStartsWith(d, Cwd) \/ privileged

\* File::open(path): symlinks followed, a directory opens too
OsOpen(s) == canonicalize(s)

\* std::fs::read(path): a regular file, symlinks followed
OsRead(s) ==
    LET Regular(r) == IF r.ok /\ r.path \in Files THEN r ELSE PathErr
    IN Regular(canonicalize(s))

\* std::fs::write(path, ..): open(O_WRONLY | O_CREAT | O_TRUNC); the last
\* component is created when missing, and a symlink there is followed
OsWrite(s, privileged) ==
    LET Target(p) ==
            IF p \in Dirs THEN PathErr
            ELSE IF p \in Files THEN PathOk(p)
            ELSE IF p = <<>> \/ SubSeq(p, 1, Len(p) - 1) \notin Dirs THEN PathErr
            ELSE IF MayCreateIn(SubSeq(p, 1, Len(p) - 1), privileged)
                 THEN PathOk(p) ELSE PathErr
        In(dir, name) ==
            IF ~dir.ok \/ dir.path \notin Dirs \/ name = <<".", ".">> THEN PathErr
            ELSE Target(LinkAt(Append(dir.path, name)))
        Of(comps) ==
            IF s = <<>> \/ comps = <<>> \/ s[Len(s)] = "/" THEN PathErr
            ELSE In(Walk(IF IsAbsolute(s) THEN <<>> ELSE Cwd,
                         SubSeq(comps, 1, Len(comps) - 1)),
                    comps[Len(comps)])
    IN Of(Components(s))

\* std::fs::remove_file(path): unlink; a symlink is removed, not its target
OsRemove(s) ==
    LET Target(p) == IF IsLink(p) \/ p \in Files THEN PathOk(p) ELSE PathErr
        In(dir, name) ==
            IF ~dir.ok \/ dir.path \notin Dirs \/ name = <<".", ".">> THEN PathErr
            ELSE Target(Append(dir.path, name))
        Of(comps) ==
            IF s = <<>> \/ comps = <<>> \/ s[Len(s)] = "/" THEN PathErr
            ELSE In(Walk(IF IsAbsolute(s) THEN <<>> ELSE Cwd,
                         SubSeq(comps, 1, Len(comps) - 1)),
                    comps[Len(comps)])
    IN Of(Components(s))

\* metadata.len() of what a path names
FileSize(p) == IF p \in Files THEN 3 ELSE 4096

Op(op, at, from) == [op |-> op, at |-> at, from |-> from]

\* response.rs detect_content_type
detect_content_type(path) ==
    IF EndsWith(path, <<".", "h", "t", "m", "l">>)
       \/ EndsWith(path, <<".", "h", "t", "m">>) THEN "text/html"
    ELSE IF EndsWith(path, <<".", "c", "s", "s">>) THEN "text/css"
    ELSE IF EndsWith(path, <<".", "j", "s">>) THEN "application/javascript"
    ELSE IF EndsWith(path, <<".", "j", "s", "o", "n">>) THEN "application/json"
    ELSE IF EndsWith(path, <<".", "p", "n", "g">>) THEN "image/png"
    ELSE IF EndsWith(path, <<".", "j", "p", "g">>)
            \/ EndsWith(path, <<".", "j", "p", "e", "g">>) THEN "image/jpeg"
    ELSE IF EndsWith(path, <<".", "g", "i", "f">>) THEN "image/gif"
    ELSE IF EndsWith(path, <<".", "s", "v", "g">>) THEN "image/svg+xml"
    ELSE IF EndsWith(path, <<".", "t", "x", "t">>) THEN "text/plain"
    ELSE "application/octet-stream"

\* byte length of a content type string
TypeLen(t) ==
    CASE t = "text/html" -> 9 [] t = "text/css" -> 8
      [] t = "application/javascript" -> 22 [] t = "application/json" -> 16
      [] t = "image/png" -> 9 [] t = "image/jpeg" -> 10 [] t = "image/gif" -> 9
      [] t = "image/svg+xml" -> 13 [] t = "text/plain" -> 10
      [] OTHER -> 24

\* models.rs FileResponse::new(file_path, cookie): Err when the file does not
\* open; from tells whether the path came from the request or from the config
FileResponse_open(file_path, from) ==
    LET o == OsOpen(file_path) IN
    IF ~o.ok THEN [ok |-> FALSE, resp |-> NoneRec, ops |-> {}]
    ELSE [ok |-> TRUE,
          resp |-> [FileResponse_new(FileSize(o.path),
                                     TypeLen(detect_content_type(file_path)),
                                     CookieLen)
                      EXCEPT !.readable = (o.path \in Files)],
          ops |-> {Op("open", o.path, from)}]

\* response.rs HttpResponseBuilder::build: status line, the headers set by the
\* caller (extra bytes), Content-Length, blank line, body
build(code, text_len, extra, body_len) ==
    [SimpleResponse_new(code,
        9 + Digits(code) + 1 + text_len + 2 + extra
        + 16 + Digits(body_len) + 2 + 2 + body_len)
     EXCEPT !.content_length = <<body_len>>, !.body_len = body_len]

\* ------------------------------------------------------------- handlers

\* config.rs Route and ServerConfig; an Option field is <<>> or <<value>>
Route(path, methods, root, default_file, redirect, cgi, list_directory) ==
    [path |-> path, methods |-> methods, root |-> root,
     default_file |-> default_file, redirect |-> redirect, cgi |-> cgi,
     list_directory |-> list_directory]

ServerConfig(server_name, root, client_max_body_size, error_pages, routes) ==
    [server_name |-> server_name, root |-> root,
     client_max_body_size |-> client_max_body_size,
     error_pages |-> error_pages, routes |-> routes]

\* format!("./error_pages/{}.html", status_code): ./e/4 stands for the 404
\* page, ./e/9 for the page of any other code
DefaultErrorPage(status_code) ==
    <<".", "/", "e", "/">> \o (IF status_code = 404 THEN <<"4">> ELSE <<"9">>)

\* read.rs / error.rs get_error_page_path
get_error_page_path(server, status_code) ==
    LET hits == {i \in 1..Len(server.error_pages) :
                    server.error_pages[i].code = status_code} IN
    IF hits = {} THEN DefaultErrorPage(status_code)
    ELSE server.error_pages[CHOOSE i \in hits : \A j \in hits : i <= j].path

\* what a handler returns and does: the response, the disk operations, and
\* the Allow and Location headers of the response (<<>> when not set)
Handled(resp, ops) ==
    [resp |-> resp, ops |-> ops, allow |-> <<>>, location |-> <<>>]

\* response.rs HttpResponseBuilder::serve_error_page
serve_error_page(error_page_path, status_code, text_len) ==
    LET r == OsRead(error_page_path) IN
    IF r.ok
    THEN Handled(build(status_code, text_len, 25, FileSize(r.path)),
                 {Op("open", r.path, "config")})
    ELSE Handled(build(status_code, text_len, 0, 0), {})

\* Mutant of handle_method_not_allowed: Allow lists GET, POST and DELETE
\* whatever the route allows.
handle_method_not_allowed_AllowAll(allowed, server) ==
    [Handled(build(405, 18, 9 + 5 * 3 + 26, 18), {})
       EXCEPT !.allow = <<{"GET", "POST", "DELETE"}>>]

\* response.rs handle_method_not_allowed: 405 with Allow, body the 405 page
\* or "Method Not Allowed"
handle_method_not_allowed(allowed, server) ==
    LET r == OsRead(get_error_page_path(server, 405))
        allow == 9 + 5 * Cardinality(allowed)
        \* line 193: allowed_methods.join(", ")
        Allowing(h) == [h EXCEPT !.allow = <<allowed>>]
    IN  IF r.ok
        THEN Allowing(Handled(build(405, 18, allow + 25, FileSize(r.path)),
                              {Op("open", r.path, "config")}))
        ELSE Allowing(Handled(build(405, 18, allow + 26, 18), {}))

\* handler.rs handle_get: the 404 fallback shared by both branches
get_not_found(server) ==
    LET nf == FileResponse_open(get_error_page_path(server, 404), "config") IN
    IF nf.ok THEN Handled(nf.resp, nf.ops)
    ELSE Handled(build(404, 9, 0, 0), {})

\* handler.rs handle_get
handle_get(request_path, server, request) ==
    LET hit == find_exact_route([i \in 1..Len(server.routes) |->
                                     server.routes[i].path], request.path)
        route == server.routes[hit]
        fallback ==
            LET fr == FileResponse_open(request_path, "request") IN
            IF fr.ok THEN Handled(fr.resp, fr.ops) ELSE get_not_found(server)
    IN
    IF hit = 0 THEN fallback
    ELSE IF route.list_directory = <<TRUE>>
    THEN \* serve_directory_listing reads the directory <server.root>/<route.root>
         LET d == canonicalize(server.root \o <<"/">> \o route.root) IN
         Handled(build(200, 2, 25, 40),
                 IF d.ok THEN {Op("list", d.path, "config")} ELSE {})
    ELSE IF route.default_file /= <<>>
    THEN LET full_path == server.root \o <<"/">> \o route.root \o <<"/">>
                          \o route.default_file[1]
             fr == FileResponse_open(full_path, "config")
         IN  IF fr.ok THEN Handled(fr.resp, fr.ops) ELSE get_not_found(server)
    ELSE fallback

\* handler.rs handle_delete
handle_delete(file_path, error_page_path) ==
    LET r == OsRemove(file_path) IN
    IF r.ok THEN Handled(build(204, 10, 0, 0), {Op("remove", r.path, "request")})
    ELSE serve_error_page(error_page_path, 404, 9)

\* response.rs write_file: fs::write, 201 when written and 500 when not
write_file(save_path, privileged) ==
    LET Written(r) ==
            IF r.ok
            THEN Handled(build(201, 7, 0, 26), {Op("write", r.path, "request")})
            ELSE Handled(build(500, 21, 0, 20), {})
    IN Written(OsWrite(save_path, privileged))

\* handler.rs handle_post: the loop over the files of a multipart body; it
\* stops at the first file that is not written
RECURSIVE post_multipart(_, _, _, _)
post_multipart(file_path, files, privileged, ops) ==
    IF files = <<>> THEN Handled(build(201, 7, 0, 40), ops)
    ELSE LET Saved(w) ==
                 IF w.resp.code >= 400 THEN Handled(w.resp, ops \cup w.ops)
                 ELSE post_multipart(file_path, Tail(files), privileged,
                                     ops \cup w.ops)
         IN  Saved(write_file(IF EndsWith(file_path, <<"/">>)
                              THEN file_path \o Head(files)
                              ELSE file_path \o <<"/">> \o Head(files),
                              privileged))

\* Mutant of the prefixes of handler.rs lines 103-108: one more is accepted.
DirectTypes_OneMore == {"application", "image", "audio", "video", "font", "text", "x-unknown"}

\* handler.rs lines 103-108: the prefixes of a direct upload
DirectTypes == {"application", "image", "audio", "video", "font", "text"}

\* handler.rs handle_post.  A content type is a sequence of tokens, e.g.
\* <<"text", "/", "plain">> or <<"multipart/form-data", ";", "boundary=", "B">>;
\* request.files is what extract_multipart_files finds in the body.
handle_post(file_path, request, privileged) ==
    LET content_type == request.content_type IN
    IF request.body_len = 0 THEN Handled(build(400, 11, 0, 10), {})
    ELSE IF content_type = <<>> THEN Handled(build(400, 11, 0, 20), {})
    ELSE IF Len(content_type) >= 2 /\ content_type[1] \in DirectTypes
            /\ content_type[2] = "/"
    THEN LET pieces == Split(content_type, "/")
             b == IF Len(pieces) >= 2 THEN pieces[2] ELSE <<"dat">>
             segs == Split(request.path, "/")
             last_segment == segs[Len(segs)]
             filename == IF last_segment /= <<>> THEN <<>>
                         ELSE <<"/", "upload_uuid", ".">> \o b
         IN  write_file(file_path \o filename, privileged)
    ELSE IF content_type[1] = "multipart/form-data"
    THEN IF ~(\E i \in 1..Len(content_type) : content_type[i] = "boundary=")
         THEN Handled(build(400, 11, 0, 26), {})
         ELSE IF request.files = <<>> THEN Handled(build(400, 11, 0, 40), {})
         ELSE post_multipart(file_path, request.files, privileged, {})
    ELSE Handled(build(415, 22, 0, 24), {})

\* HttpResponseBuilder::redirect(target).build(): 301 with Location, no body
redirect(target) ==
    [Handled(build(301, 17, 12 + Len(target), 0), {})
       EXCEPT !.location = <<target>>]

\* Mutant of the dispatch of handle_read_state: the method check is made
\* before the redirect test.
dispatch_MethodCheckFirst(selected_server, request, privileged, cgi_ok) ==
    LET D(kind, h, sel, resolved) ==
            [kind |-> kind, ok |-> TRUE, resp |-> h.resp, ops |-> h.ops,
             allow |-> h.allow, location |-> h.location,
             route |-> sel, resolved |-> resolved]
        Cgi(sel, resolved, o) ==
            [kind |-> "CGI", ok |-> cgi_ok,
             resp |-> IF cgi_ok THEN build(200, 2, 0, 10) ELSE NoneRec,
             ops |-> IF cgi_ok /\ o.ok THEN {Op("exec", o.path, "request")} ELSE {},
             allow |-> <<>>, location |-> <<>>,
             route |-> sel, resolved |-> resolved]
    IN
    The({
      IF sel = 0
      THEN D("404", serve_error_page(get_error_page_path(selected_server, 404),
                                     404, 9), sel, NoPath)
      ELSE The({
        IF request.method \notin route.methods
        THEN D("405", handle_method_not_allowed(route.methods, selected_server),
               sel, NoPath)
        ELSE IF route.redirect /= <<>>
        THEN D("redirect", redirect(route.redirect[1]), sel, NoPath)
        ELSE The({
          The({
            IF route.cgi /= <<>> /\ EndsWith(request.path, route.cgi[1])
            THEN Cgi(sel, resolved, OsOpen(file_path))
            ELSE IF request.method = "GET"
            THEN D("GET", handle_get(file_path, selected_server, request),
                   sel, resolved)
            ELSE IF request.method = "POST"
            THEN D("POST", handle_post(file_path, request, privileged),
                   sel, resolved)
            ELSE IF request.method = "DELETE"
            THEN D("DELETE",
                   handle_delete(file_path,
                                 get_error_page_path(selected_server, 404)),
                   sel, resolved)
            ELSE D("Other",
                   handle_method_not_allowed(route.methods, selected_server),
                   sel, resolved)
            \* line 229: unwrap_or_else(|| "".to_string())
            : file_path \in {IF resolved.some THEN resolved.path ELSE <<>>} })
          : resolved \in {resolve_file_path(selected_server.root, route.root,
                                            route.path, request.path)} })
        : route \in {selected_server.routes[sel]} })
      : sel \in {find_matching_route(
                    [i \in 1..Len(selected_server.routes) |->
                         selected_server.routes[i].path], request.path)} })

\* read.rs handle_read_state, lines 209-270: route, redirect, method check,
\* path resolution, CGI, method dispatch.  cgi_ok is what run_cgi returns.
dispatch(selected_server, request, privileged, cgi_ok) ==
    LET D(kind, h, sel, resolved) ==
            [kind |-> kind, ok |-> TRUE, resp |-> h.resp, ops |-> h.ops,
             allow |-> h.allow, location |-> h.location,
             route |-> sel, resolved |-> resolved]
        Cgi(sel, resolved, o) ==
            [kind |-> "CGI", ok |-> cgi_ok,
             resp |-> IF cgi_ok THEN build(200, 2, 0, 10) ELSE NoneRec,
             ops |-> IF cgi_ok /\ o.ok THEN {Op("exec", o.path, "request")} ELSE {},
             allow |-> <<>>, location |-> <<>>,
             route |-> sel, resolved |-> resolved]
    IN
    The({
      IF sel = 0
      THEN D("404", serve_error_page(get_error_page_path(selected_server, 404),
                                     404, 9), sel, NoPath)
      ELSE The({
        IF route.redirect /= <<>>
        THEN D("redirect", redirect(route.redirect[1]), sel, NoPath)
        ELSE IF request.method \notin route.methods
        THEN D("405", handle_method_not_allowed(route.methods, selected_server),
               sel, NoPath)
        ELSE The({
          The({
            IF route.cgi /= <<>> /\ EndsWith(request.path, route.cgi[1])
            THEN Cgi(sel, resolved, OsOpen(file_path))
            ELSE IF request.method = "GET"
            THEN D("GET", handle_get(file_path, selected_server, request),
                   sel, resolved)
            ELSE IF request.method = "POST"
            THEN D("POST", handle_post(file_path, request, privileged),
                   sel, resolved)
            ELSE IF request.method = "DELETE"
            THEN D("DELETE",
                   handle_delete(file_path,
                                 get_error_page_path(selected_server, 404)),
                   sel, resolved)
            ELSE D("Other",
                   handle_method_not_allowed(route.methods, selected_server),
                   sel, resolved)
            \* line 229: unwrap_or_else(|| "".to_string())
            : file_path \in {IF resolved.some THEN resolved.path ELSE <<>>} })
          : resolved \in {resolve_file_path(selected_server.root, route.root,
                                            route.path, request.path)} })
        : route \in {selected_server.routes[sel]} })
      : sel \in {find_matching_route(
                    [i \in 1..Len(selected_server.routes) |->
                         selected_server.routes[i].path], request.path)} })

\* ------------------------------------------------------ request accumulator
\* A request on the wire is its head (head_len bytes ending in CRLF CRLF)
\* followed by its body.  The bytes read from the socket are handed to the
\* builder as a chunk: so many bytes of the head, so many of the body, and
\* what the text spells once the head is complete.

\* request.rs HttpRequest, with the body the accumulator attaches
Request(method, path, host, connection, content_length, content_type, files) ==
    [kind |-> "Request", method |-> method, path |-> path, host |-> host,
     connection |-> connection, content_length |-> content_length,
     content_type |-> content_type, files |-> files,
     body_len |-> content_length]

Chunk(head, body, text) == [head |-> head, body |-> body, text |-> text]

\* request.rs HttpRequestBuilder::new
HttpRequestBuilder_new ==
    [head_rcvd |-> 0, body_len |-> 0, state |-> "Headline", request |-> NoneRec]

\* The accumulator of read.rs (header_done, get_before_done, body_len,
\* set_state, done, get): append advances Headline -> Headers -> Body ->
\* Complete; the head is parsed when its terminator arrives, and a request
\* line that is not three tokens is an error.
acc_append(b, ch) ==
    LET head_rcvd == b.head_rcvd + ch.head
        completes == b.state \in {"Headline", "Headers"}
                     /\ head_rcvd = ch.text.head_len
        body_len == b.body_len + ch.body
    IN
    IF completes /\ ~ch.text.line_ok THEN [ok |-> FALSE, b |-> b]
    ELSE IF completes \/ b.state = "Body"
    THEN LET req == IF completes THEN ch.text.req ELSE b.request
             full == body_len >= req.content_length
         IN [ok |-> TRUE,
             b |-> [head_rcvd |-> head_rcvd, body_len |-> body_len,
                    state |-> IF full THEN "Complete" ELSE "Body",
                    request |-> [req EXCEPT !.body_len = body_len]]]
    ELSE [ok |-> TRUE,
          b |-> [b EXCEPT !.head_rcvd = head_rcvd, !.body_len = body_len,
                          !.state = IF b.state = "Headline" /\ head_rcvd > 0
                                    THEN "Headers" ELSE b.state]]

acc_header_done(b) == b.state \in {"Body", "Complete"}

acc_get_before_done(b) == b.request

acc_body_len(b) == b.body_len

acc_done(b) == b.state = "Complete"

acc_set_state(b, st) == [b EXCEPT !.state = st]

acc_get(b) == IF b.state = "Complete" THEN b.request ELSE NoneRec

\* ---------------------------------------------------------- read.rs (reads)

\* read.rs extract_hostname: the Host value before the first `:`, "" when absent
extract_hostname(request) ==
    IF request.host = <<>> THEN <<>> ELSE Split(request.host, ":")[1]

\* Mutant of select_server: the Host is ignored, the default server answers.
select_server_AlwaysDefault(listener_info, hostname) ==
    listener_info.servers[listener_info.default_server_index]

\* read.rs select_server
select_server(listener_info, hostname) ==
    LET hits == {i \in 1..Len(listener_info.servers) :
                    listener_info.servers[i].server_name = hostname} IN
    IF hits /= {}
    THEN listener_info.servers[CHOOSE i \in hits : \A j \in hits : i <= j]
    ELSE listener_info.servers[listener_info.default_server_index]

\* size of the read buffer of read_request
ReadBufSize == 4096

Rd(c, res) == [c |-> c, res |-> res]

\* Mutant of read_request: the body limit is tested only once the request is
\* complete.
read_request_CheckWhenDone(c, listener_info, ev, ch) ==
    LET Check(c2) ==
            IF acc_done(c2.request)
            THEN IF c2.max_body_size /= <<>>
                    /\ acc_body_len(c2.request) > c2.max_body_size[1]
                 THEN Rd([c2 EXCEPT !.body_too_large = TRUE], SomeTrue)
                 ELSE Rd(c2, SomeTrue)
            ELSE Rd(c2, "Loop")
        Latch(c1) ==
            Check(IF acc_header_done(c1.request) /\ ~c1.server_selected
                  THEN [c1 EXCEPT
                          !.max_body_size =
                              <<select_server(listener_info,
                                  extract_hostname(acc_get_before_done(c1.request))
                                ).client_max_body_size>>,
                          !.server_selected = TRUE]
                  ELSE c1)
        Appended(c0, a) ==
            IF ~a.ok THEN Rd(c0, RNone) ELSE Latch([c0 EXCEPT !.request = a.b])
        Turn(c0) ==
            IF ev.k = "WouldBlock" THEN Rd(c0, SomeFalse)
            ELSE IF ev.k = "Err" \/ ev.n = 0 THEN Rd(c0, RNone)
            ELSE Appended(c0, acc_append(c0.request, ch))
    IN Turn([c EXCEPT !.ttl = Instant_now])

\* Mutant of read_request: without a listener the latch is skipped and the
\* request is read on.
read_request_SkipsLatch(c, listener_info, ev, ch) ==
    LET \* lines 142-152: the admission check, then done()
        Check(c2) ==
            IF c2.max_body_size /= <<>>
               /\ acc_body_len(c2.request) > c2.max_body_size[1]
            THEN Rd([c2 EXCEPT !.body_too_large = TRUE,
                               !.request = acc_set_state(c2.request, "Complete")],
                    SomeTrue)
            ELSE IF acc_done(c2.request) THEN Rd(c2, SomeTrue)
            ELSE Rd(c2, "Loop")
        \* lines 131-140: the server is selected once, its limit latched;
        \* line 135: `listener_info?` returns None when there is no listener
        Latch(c1) ==
            Check(IF acc_header_done(c1.request) /\ ~c1.server_selected
                     /\ listener_info /= NoneRec
                  THEN [c1 EXCEPT
                          !.max_body_size =
                              <<select_server(listener_info,
                                  extract_hostname(acc_get_before_done(c1.request))
                                ).client_max_body_size>>,
                          !.server_selected = TRUE]
                  ELSE c1)
        \* line 129: append(..).ok()?
        Appended(c0, a) ==
            IF ~a.ok THEN Rd(c0, RNone) ELSE Latch([c0 EXCEPT !.request = a.b])
        Turn(c0) ==
            IF ev.k = "WouldBlock" THEN Rd(c0, SomeFalse)
            ELSE IF ev.k = "Err" \/ ev.n = 0 THEN Rd(c0, RNone)
            ELSE Appended(c0, acc_append(c0.request, ch))
    IN Turn([c EXCEPT !.ttl = Instant_now])

\* read.rs read_request, one turn of its loop: ev is what stream.read
\* returned, ch the bytes read.  "Loop" is the loop going round again.
read_request(c, listener_info, ev, ch) ==
    LET \* lines 142-152: the admission check, then done()
        Check(c2) ==
            IF c2.max_body_size /= <<>>
               /\ acc_body_len(c2.request) > c2.max_body_size[1]
            THEN Rd([c2 EXCEPT !.body_too_large = TRUE,
                               !.request = acc_set_state(c2.request, "Complete")],
                    SomeTrue)
            ELSE IF acc_done(c2.request) THEN Rd(c2, SomeTrue)
            ELSE Rd(c2, "Loop")
        \* lines 131-140: the server is selected once, its limit latched;
        \* line 135: `listener_info?` returns None when there is no listener
        Latch(c1) ==
            IF acc_header_done(c1.request) /\ ~c1.server_selected
               /\ listener_info = NoneRec
            THEN Rd(c1, RNone)
            ELSE
            Check(IF acc_header_done(c1.request) /\ ~c1.server_selected
                  THEN [c1 EXCEPT
                          !.max_body_size =
                              <<select_server(listener_info,
                                  extract_hostname(acc_get_before_done(c1.request))
                                ).client_max_body_size>>,
                          !.server_selected = TRUE]
                  ELSE c1)
        \* line 129: append(..).ok()?
        Appended(c0, a) ==
            IF ~a.ok THEN Rd(c0, RNone) ELSE Latch([c0 EXCEPT !.request = a.b])
        Turn(c0) ==
            IF ev.k = "WouldBlock" THEN Rd(c0, SomeFalse)
            ELSE IF ev.k = "Err" \/ ev.n = 0 THEN Rd(c0, RNone)
            ELSE Appended(c0, acc_append(c0.request, ch))
    IN Turn([c EXCEPT !.ttl = Instant_now])

\* the thread panics
Panic == "panic"

Hr(c, res, made) == [c |-> c, res |-> res, did |-> made]

\* what handle_read_state did for a request: the kind of answer, the
\* response, the disk operations, the route and the server used
Made(d, server) ==
    [kind |-> d.kind, ok |-> d.ok, resp |-> d.resp, ops |-> d.ops,
     allow |-> d.allow, location |-> d.location,
     route |-> d.route, resolved |-> d.resolved, server |-> server]

TooLarge(response) ==
    [kind |-> "413", ok |-> TRUE, resp |-> response, ops |-> {},
     allow |-> <<>>, location |-> <<>>,
     route |-> 0, resolved |-> NoPath]

\* Mutant of handle_read_state: the 413 branch moves to Write without
\* installing the response.
handle_read_state_No413Body(c, listener_info, ev, ch, privileged, cgi_ok) ==
    The({
      IF rr.res /= SomeTrue THEN Hr(rr.c, rr.res, NoneRec)
      ELSE The({
        IF request = NoneRec THEN Hr(rr.c, RNone, NoneRec)
        ELSE The({
          The({
            IF ~made.ok THEN Hr(rr.c, RNone, made)
            ELSE Hr([rr.c EXCEPT !.response = IF made.kind = "413" THEN NoneRec
                                              ELSE made.resp,
                                 !.status = "Write"], SomeTrue, made)
            : made \in {Made(IF rr.c.body_too_large
                             THEN TooLarge(build(413, 17, 0, 22))
                             ELSE dispatch(selected_server, request, privileged,
                                           cgi_ok),
                             selected_server)} })
          : selected_server \in
              {select_server(listener_info, extract_hostname(request))} })
        : request \in {acc_get(rr.c.request)} })
      : rr \in {read_request(c, listener_info, ev, ch)} })

\* read.rs handle_read_state: read_request, then (on Some(true)) the 413
\* answer or the dispatch, the response installed and the phase set to Write
handle_read_state(c, listener_info, ev, ch, privileged, cgi_ok) ==
    The({
      \* lines 175-178
      IF rr.res /= SomeTrue THEN Hr(rr.c, rr.res, NoneRec)
      ELSE The({
        \* line 180: get()?
        IF request = NoneRec THEN Hr(rr.c, RNone, NoneRec)
        \* line 187: expect("No listener info available")
        ELSE IF listener_info = NoneRec THEN Hr(rr.c, Panic, NoneRec)
        ELSE The({
          The({
            \* a CGI that fails returns None; otherwise the response goes
            \* into the slot and the phase becomes Write
            IF ~made.ok THEN Hr(rr.c, RNone, made)
            ELSE Hr([rr.c EXCEPT !.response = made.resp, !.status = "Write"],
                    SomeTrue, made)
            \* lines 191-270: 413 when the body was too large, else the dispatch
            : made \in {Made(IF rr.c.body_too_large
                             THEN TooLarge(build(413, 17, 0, 22))
                             ELSE dispatch(selected_server, request, privileged,
                                           cgi_ok),
                             selected_server)} })
          \* lines 186-188: the server of the request's Host
          : selected_server \in
              {select_server(listener_info, extract_hostname(request))} })
        : request \in {acc_get(rr.c.request)} })
      : rr \in {read_request(c, listener_info, ev, ch)} })

\* ------------------------------------------------------------ write.rs

\* str::to_lowercase on the Connection header values of the model
to_lowercase(v) == IF v \in {"Keep-Alive", "KEEP-ALIVE"} THEN "keep-alive" ELSE v

\* Mutant of should_keep_alive: any Connection header keeps the connection.
should_keep_alive_AnyValue(request) == request.connection /= ""

\* write.rs should_keep_alive; the header is "" when absent
should_keep_alive(request) ==
    IF request.connection = "" THEN FALSE
    ELSE to_lowercase(request.connection) = "keep-alive"

\* write.rs write_response: ro is the outcome of the file read fill_if_needed
\* makes (if it makes one), wo the outcome of stream.write.
write_response(c, ro, wo) ==
    IF c.response = NoneRec THEN [c |-> c, res |-> RNone, out |-> Run("d", 0, 0)]
    ELSE IF ro.k = "Err" THEN [c |-> c, res |-> RNone, out |-> Run("d", 0, 0)]
    ELSE
      LET r1 == fill_if_needed(c.response, ro.n)
          data == peek(r1)
          c1 == [c EXCEPT !.response = r1]
      IN  IF RunLen(data) = 0
          THEN [c |-> c1, res |-> SomeTrue, out |-> Run(data.src, data.lo, data.lo)]
          ELSE IF wo.k = "Ok"
          THEN LET r2 == next(r1, wo.n)
               IN [c |-> [c EXCEPT !.response = r2,
                                   !.ttl = IF wo.n > 0 THEN Instant_now ELSE c.ttl],
                   res |-> IF is_finished(r2) THEN SomeFalse ELSE SomeTrue,
                   out |-> Run(data.src, data.lo, data.lo + wo.n)]
          ELSE IF wo.k = "WouldBlock"
          THEN [c |-> c1, res |-> SomeFalse, out |-> Run(data.src, data.lo, data.lo)]
          ELSE [c |-> c1, res |-> RNone, out |-> Run(data.src, data.lo, data.lo)]

\* write.rs handle_write_state
handle_write_state(c, ro, wo) ==
    LET w == write_response(c, ro, wo) IN
    IF w.res /= SomeTrue THEN w
    ELSE IF w.c.response = NoneRec THEN [w EXCEPT !.res = RNone]
    ELSE IF ~is_finished(w.c.response) THEN w
    ELSE IF acc_get(w.c.request) = NoneRec THEN [w EXCEPT !.res = RNone]
    ELSE IF should_keep_alive(acc_get(w.c.request))
    THEN [w EXCEPT !.c = [w.c EXCEPT !.status = "Read",
                                     !.request = HttpRequestBuilder_new,
                                     !.response = NoneRec],
                   !.res = SomeTrue]
    ELSE [w EXCEPT !.c = [w.c EXCEPT !.shutdown = TRUE], !.res = RNone]

\* The bytes accepted so far, with the run just accepted appended (adjacent
\* runs of one source are kept merged).
AppendRun(runs, run) ==
    IF RunLen(run) = 0 THEN runs
    ELSE IF runs /= <<>> /\ runs[Len(runs)].src = run.src
            /\ runs[Len(runs)].hi = run.lo
    THEN [runs EXCEPT ![Len(runs)].hi = run.hi]
    ELSE Append(runs, run)

\* The loop's handling of a writable event on a connection in Write: one call
\* of handle_write_state; None removes the connection.
WriteEvent ==
    /\ conn.open /\ conn.status = "Write" /\ conn.driver = "state"
    /\ \E ro \in FillOutcomes(conn.response) :
       \E wo \in WriteOutcomes(
                    IF ro.k = "Err" THEN 1
                    ELSE RunLen(peek(fill_if_needed(conn.response, ro.n))),
                    net.part) :
       \E w \in {handle_write_state(conn, ro, wo)} :
          /\ conn' = IF w.res = RNone THEN [w.c EXCEPT !.open = FALSE] ELSE w.c
          /\ sent' = AppendRun(sent, w.out)
          /\ result' = w.res
          /\ net' = IF w.c.status = "Read" THEN [net EXCEPT !.wire = NoneRec]
                     ELSE net
    /\ UNCHANGED <<did, routeVars, pathVars, loopVars>>

\* ------------------------------------------- server.rs, router.rs, request.rs
\* The loop of server.rs keeps response_bytes and index_written in the
\* SocketStatus; the model holds them in the response slot as data_len and
\* index, an empty Vec being data_len = 0.

\* request.rs HttpRequestBuilder::append: the buffer grows; once it holds the
\* head's terminator the head is parsed, and a request line that is not
\* three tokens is an error
append(b, ch) ==
    LET head_rcvd == b.head_rcvd + ch.head
        terminated == head_rcvd >= ch.text.head_len
        grown == [b EXCEPT !.head_rcvd = head_rcvd,
                           !.body_len = b.body_len + ch.body,
                           !.state = IF terminated THEN "Complete" ELSE "Headers"]
    IN
    IF ~terminated THEN [ok |-> TRUE, b |-> grown]
    ELSE IF ~ch.text.line_ok THEN [ok |-> FALSE, b |-> grown]
    ELSE [ok |-> TRUE,
          b |-> [grown EXCEPT !.request =
                    [ch.text.req EXCEPT !.body_len = grown.body_len]]]

\* request.rs HttpRequestBuilder::done
done(b) == b.state = "Complete"

\* request.rs HttpRequestBuilder::get
get(b) == b.request

\* router.rs Router::not_found
not_found == build(404, 9, 0, 50)

\* router.rs Router::method_not_allowed
method_not_allowed == build(405, 18, 0, 59)

\* router.rs Router::serve_static; index.html is the file i of the model
serve_static(request, route) ==
    LET stripped == IF StartsWith(request.path, route.path)
                    THEN SubSeq(request.path, Len(route.path) + 1, Len(request.path))
                    ELSE <<"/">>
        file_path == IF stripped = <<>> \/ stripped = <<"/">>
                     THEN (IF route.default_file /= <<>>
                           THEN route.default_file[1] ELSE <<"i">>)
                     ELSE TrimStartMatches(stripped, "/")
        full_path == route.root \o <<"/">> \o file_path
        r == OsRead(full_path)
    IN IF r.ok
       THEN Handled(build(200, 2, 0, FileSize(r.path)), {Op("open", r.path, "request")})
       ELSE Handled(not_found, {})

\* router.rs Router::handle_request (no custom handler is registered)
handle_request(config_routes, request) ==
    LET sel == find_route([i \in 1..Len(config_routes) |-> config_routes[i].path],
                          request.path)
        route == config_routes[sel]
    IN IF sel = 0 THEN Handled(not_found, {})
       ELSE IF route.methods /= {} /\ request.method \notin route.methods
       THEN Handled(method_not_allowed, {})
       ELSE serve_static(request, route)

\* what Server::handle_read did for a request: the Router's answer, and the
\* server whose routes the Router holds
Routed(h, router) ==
    [kind |-> "Router", ok |-> TRUE, resp |-> h.resp, ops |-> h.ops,
     allow |-> h.allow, location |-> h.location,
     route |-> 0, resolved |-> NoPath, server |-> router.loaded_from]

\* server.rs line 221: b"HTTP/1.1 400 Bad Request\r\n\r\nBad Request", a status
\* line, no header, and a body of 11 bytes
BadRequestBytes == [SimpleResponse_new(400, 39) EXCEPT !.body_len = 11]

\* server.rs Server::handle_read, one turn of its loop: ev is what
\* stream.read returned, ch the bytes read
handle_read(c, router, ev, ch) ==
    LET \* lines 241-248: the response of the router, phase Write
        Respond(c1, made) ==
            Hr([c1 EXCEPT !.response = made.resp, !.status = "Write"],
               "NeedsWrite", made)
        \* lines 217-226: a parse error is answered 400
        Appended(c1, ok) ==
            IF ~ok
            THEN Hr([c1 EXCEPT !.response = BadRequestBytes,
                               !.status = "Write"], "NeedsWrite", NoneRec)
            ELSE IF ~done(c1.request) THEN Hr(c1, "Loop", NoneRec)
            ELSE IF get(c1.request) = NoneRec THEN Hr(c1, "KeepAlive", NoneRec)
            ELSE Respond(c1, Routed(handle_request(router.config_routes,
                                                   get(c1.request)), router))
        Turn(a) == Appended([c EXCEPT !.ttl = Instant_now, !.request = a.b], a.ok)
    IN
    IF c.status /= "Read" THEN Hr(c, "KeepAlive", NoneRec)
    ELSE IF ev.k = "WouldBlock" THEN Hr(c, "KeepAlive", NoneRec)
    ELSE IF ev.k = "Err" \/ ev.n = 0 THEN Hr(c, "Close", NoneRec)
    ELSE Turn(append(c.request, ch))

\* server.rs Server::handle_write, one turn of its loop: wo is what
\* stream.write returned for the unwritten rest of response_bytes
handle_write(c, wo) ==
    LET r == c.response
        none == Run("d", r.index, r.index)
    IN
    IF c.status /= "Write" THEN [c |-> c, res |-> "KeepAlive", out |-> none]
    ELSE IF r.index >= r.data_len THEN [c |-> c, res |-> "Close", out |-> none]
    ELSE IF wo.k = "WouldBlock" THEN [c |-> c, res |-> "NeedsWrite", out |-> none]
    ELSE IF wo.k = "Err" THEN [c |-> c, res |-> "Close", out |-> none]
    ELSE
      LET c1 == [c EXCEPT !.response.index = r.index + wo.n, !.ttl = Instant_now]
          out == Run("d", r.index, r.index + wo.n)
      IN IF c1.response.index >= r.data_len
         THEN [c |-> [c1 EXCEPT !.status = "Finish"], res |-> "Close", out |-> out]
         ELSE [c |-> c1, res |-> "Loop", out |-> out]

\* ------------------------------------------------ streaming specification
\* A connection that has just been moved to Write with a producer installed;
\* the socket then accepts the response in pieces.

MaxFileBlocks == 2
SimpleLen == 40

FileLens ==
    {0, 1, BufferSize - 1, BufferSize + 1}
    \cup { k * BufferSize : k \in 1..MaxFileBlocks }

Producers ==
    { SimpleResponse_new(200, n) : n \in {1, SimpleLen} }
    \cup { FileResponse_new(n, 9, CookieLen) : n \in FileLens }

\* The peer of a connection: the request on the wire (none yet), the bytes of
\* it not yet read by the server, the requests sent so far, whether the server
\* process may write outside its working directory, and the size of a
\* partial write the socket accepts.
Peer(privileged, part) ==
    [kind |-> "Peer", wire |-> NoneRec, head_left |-> 0, body_left |-> 0,
     nreq |-> 0, privileged |-> privileged, part |-> part]

\* server.rs SocketStatus of a connection just accepted
NewConn ==
    [kind |-> "Conn", driver |-> "state", open |-> TRUE, status |-> "Read",
     request |-> HttpRequestBuilder_new, response |-> NoneRec,
     server_selected |-> FALSE, max_body_size |-> <<>>,
     body_too_large |-> FALSE, shutdown |-> FALSE, ttl |-> Instant_now]

InitWrite ==
    /\ IdleLoop
    /\ \E p \in Producers, ka \in {"", "keep-alive", "close"} :
         conn = [NewConn EXCEPT
                   !.status = "Write",
                   !.response = p,
                   !.request = [head_rcvd |-> 30, body_len |-> 0,
                                state |-> "Complete",
                                request |-> Request("GET", <<"/">>, <<"a">>, ka, 0, <<>>, <<>>)],
                   !.server_selected = TRUE,
                   !.max_body_size = <<10>>,
                   !.ttl = Instant_now]
    /\ sent = <<>>
    /\ result = SomeTrue
    /\ net = Peer(FALSE, 1)
    /\ did = NoneRec
    /\ IdleRoute
    /\ IdlePath

SpecWrite == InitWrite /\ [][WriteEvent]_vars

\* The producer's byte sequence: header bytes then body bytes.
Full(r) ==
    IF r.kind = "Simple" THEN <<Run("d", 0, r.data_len)>>
    ELSE <<Run("h", 0, r.headers_len)>>
         \o (IF r.file_len > 0 THEN <<Run("f", 0, r.file_len)>> ELSE <<>>)

\* runs is a prefix of the byte sequence full
IsPrefixRuns(runs, full) ==
    \/ runs = <<>>
    \/ /\ Len(runs) <= Len(full)
       /\ \A i \in 1..Len(runs) :
            /\ runs[i].src = full[i].src
            /\ runs[i].lo = full[i].lo
            /\ IF i < Len(runs) THEN runs[i].hi = full[i].hi
               ELSE runs[i].hi <= full[i].hi

\* C6 as stated: the accepted bytes are the producer's bytes in order, and
\* is_finished() holds exactly when the last byte has been accepted.
C6_FinishedExactlyAtLastByte ==
    conn.response /= NoneRec =>
        /\ IsPrefixRuns(sent, Full(conn.response))
        /\ is_finished(conn.response) <=> (sent = Full(conn.response))

\* C6 (amended): the bytes accepted by the socket are always a prefix of the
\* producer's byte sequence (nothing skipped, duplicated or reordered);
\* is_finished() implies that every byte has been accepted; for a
\* SimpleResponse it holds exactly then, for a FileResponse it holds once the
\* read after the last byte has returned 0.
C6_OrderedExactlyOnce ==
    conn.response /= NoneRec =>
        LET r == conn.response IN
        /\ IsPrefixRuns(sent, Full(r))
        /\ is_finished(r) => sent = Full(r)
        /\ r.kind = "Simple" /\ sent = Full(r) => is_finished(r)
        /\ r.kind = "File" /\ sent = Full(r) =>
               (is_finished(r) <=> r.finished)
        /\ r.kind = "File" /\ r.finished => sent = Full(r)

C6_Witness ==
    /\ conn.response /= NoneRec
    /\ conn.response.kind = "File"
    /\ conn.response.file_len = 2 * BufferSize
    /\ is_finished(conn.response)
    /\ sent = Full(conn.response)
    /\ result = RNone /\ conn.shutdown

\* C7: when a FileResponse has been streamed to the end, the body bytes the
\* socket accepted are the file's bytes (all of them, in order, once) and the
\* Content-Length of the header is the file's length.
C7_FileByteExact ==
    (conn.response /= NoneRec /\ conn.response.kind = "File") =>
        LET r == conn.response
            body == SelectSeq(sent, LAMBDA x : x.src = "f")
        IN  /\ r.content_length = r.file_len
            /\ is_finished(r) =>
                 body = (IF r.file_len > 0 THEN <<Run("f", 0, r.file_len)>> ELSE <<>>)

C7_Witness ==
    /\ conn.response /= NoneRec
    /\ conn.response.kind = "File"
    /\ conn.response.file_len = BufferSize
    /\ is_finished(conn.response)
    /\ SelectSeq(sent, LAMBDA x : x.src = "f") = <<Run("f", 0, BufferSize)>>

\* ------------------------------------------------- dispatch specification
\* One complete request handed to the dispatch of handle_read_state, for
\* every method and a set of request paths with `..`, trailing `/`, missing
\* targets and symlinks.

AllMethods == {"GET", "POST", "DELETE"}

RtRoot == Route(<<"/">>, AllMethods, <<"s">>, <<>>, <<>>, <<>>, <<>>)

RtUpload == Route(<<"/", "u">>, AllMethods, <<"s", "/", "d">>, <<>>, <<>>, <<>>, <<>>)

PathServer == ServerConfig(<<"a">>, <<"w">>, 10, <<>>, <<RtRoot, RtUpload>>)

\* the same server with no 404 page of its own (./error_pages/404.html is
\* used), and with a configured 404 page that does not exist
PathServers ==
    { PathServer,
      [PathServer EXCEPT !.error_pages = <<[code |-> 404, path |-> <<"/", "z">>]>>] }

DispatchPaths ==
    { <<"/">>, <<"/", "i">>, <<"/", "n">>, <<"/", "d", "/", "f">>,
      <<"/", "q", "/">>, <<"/", ".", ".", "/", "x">>, <<"/", ".", ".", "/">>,
      <<"/", "d", "/", ".", ".", "/", ".", ".", "/", "x">>,
      <<"/", "l", "/", "p">>, <<"/", "g">>,
      <<"/", "u">>, <<"/", "u", "/">>, <<"/", "u", "/", "n">>,
      <<"/", "u", "/", ".", ".", "/", "i">>, <<"/", "u", "/", ".", ".", "/">> }

ContentTypes ==
    { <<>>, <<"text", "/", "plain">>,
      <<"multipart/form-data", ";", "boundary=", "B">>,
      <<"multipart/form-data">>, <<"x-unknown", "/", "y">> }

\* what extract_multipart_files finds in a multipart body: one file, two files
MultipartFiles == { << <<"n">> >>, << <<"n">>, <<"m">> >> }

InitPath ==
    /\ \E method \in AllMethods, path \in DispatchPaths, ct \in ContentTypes,
          len \in {0, 5}, privileged \in BOOLEAN, server \in PathServers,
          files \in MultipartFiles :
         px_in = [kind |-> "Dispatch", server |-> server,
                  request |-> Request(method, path, <<"a">>, "", len, ct,
                                      IF len > 0 /\ Len(ct) = 4
                                      THEN files ELSE <<>>),
                  privileged |-> privileged]
    /\ px_out = NoneRec
    /\ IdleRoute
    /\ IdleConn
    /\ IdleLoop

RunDispatch ==
    /\ px_in /= NoneRec /\ px_out = NoneRec
    /\ \E cgi_ok \in BOOLEAN :
         px_out' = dispatch(px_in.server, px_in.request, px_in.privileged, cgi_ok)
    /\ UNCHANGED <<px_in, routeVars, connVars, loopVars>>

SpecPath == InitPath /\ [][RunDispatch]_vars

\* base = canonical(server.root/route.root) of the route of a dispatch
BaseOf(server, sel) ==
    canonicalize(server.root \o <<"/">> \o server.routes[sel].root).path

\* C8: for any request path and any of GET, POST, DELETE, every file the
\* request makes the server open, write or remove lies under the base of the
\* selected route, and a request whose path resolution is rejected is
\* answered 404.
C8_PathSafety ==
    (px_out /= NoneRec /\ px_out.kind \in AllMethods) =>
        /\ \A op \in px_out.ops :
              op.from = "request" =>
                  PathStartsWith(op.at, BaseOf(px_in.server, px_out.route))
        /\ ~px_out.resolved.some => px_out.resp.code = 404

\* ----------------------------------------------- connection specification
\* One connection from accept to close.  The peer sends up to MaxRequests
\* requests, each read in pieces; the server answers through the handlers of
\* read.rs and write.rs (driver "state") or through the loop of server.rs
\* (driver "server").

MaxRequests == 2
HeadLen == 2
PartialWrite == 64

RtSite == Route(<<"/">>, {"GET"}, <<"s">>, <<>>, <<>>, <<>>, <<>>)

RtMoved == Route(<<"/", "r">>, {"GET"}, <<"s">>, <<>>, << <<"/">> >>, <<>>, <<>>)

RtCgi == Route(<<"/", "c">>, {"GET"}, <<"s">>, <<>>, <<>>, << <<"k">> >>, <<>>)

\* two servers on one listener, a the default; b has a 405 page of its own
Listener ==
    [servers |-> << ServerConfig(<<"a">>, <<"w">>, 10, <<>>,
                                 <<RtSite, RtUpload, RtMoved, RtCgi>>),
                    ServerConfig(<<"b">>, <<"w">>, 3,
                                 <<[code |-> 405,
                                    path |-> <<".", "/", "e", "/", "4">>]>>,
                                 <<RtUpload>>) >>,
     default_server_index |-> 1]

\* server.rs Server::run, lines 55-57: the Router is loaded with the routes of
\* the first server of the configuration, and serves every connection
Router ==
    [config_routes |-> Head(Listener.servers).routes,
     loaded_from |-> Head(Listener.servers)]

Wire(req, line_ok) ==
    [kind |-> "Wire", req |-> req, line_ok |-> line_ok, head_len |-> HeadLen]

Hosts == { <<"a">>, <<"b", ":", "80">>, <<>> }

Connections == {"", "keep-alive", "Keep-Alive", "close"}

BodyLens == {0, 4, 5000}

Targets ==
    { <<"GET", <<"/">>, <<>> >>, <<"GET", <<"/", "r">>, <<>> >>,
      <<"GET", <<"/", "u", "/", "n">>, <<>> >>, <<"GET", <<"/", "c", "/", "k">>, <<>> >>,
      <<"DELETE", <<"/", "u", "/", "f">>, <<>> >>, <<"DELETE", <<"/">>, <<>> >>,
      <<"PUT", <<"/", "u", "/", "n">>, <<>> >>,
      <<"POST", <<"/", "u", "/", "n">>, <<"text", "/", "plain">> >>,
      <<"POST", <<"/", "u", "/">>, <<"multipart/form-data", ";", "boundary=", "B">> >>,
      <<"POST", <<"/">>, <<"text", "/", "plain">> >>,
      <<"POST", <<"/", "c", "/", "k">>, <<"text", "/", "plain">> >>,
      <<"DELETE", <<"/", "r">>, <<>> >> }

\* the requests a peer may send; one with a malformed request line
Wires ==
    { Wire(Request(t[1], t[2], h, c, n, t[3],
                   IF n > 0 /\ Len(t[3]) = 4 THEN << <<"n">> >> ELSE <<>>), TRUE) :
        t \in Targets, h \in Hosts, c \in Connections, n \in BodyLens }
    \cup { Wire(Request("GET", <<"/">>, <<"a">>, "keep-alive", 0, <<>>, <<>>), FALSE) }

Init ==
    /\ IdleLoop
    /\ \E driver \in {"state", "server"} :
         conn = [NewConn EXCEPT
                   !.driver = driver,
                   !.response = IF driver = "server"
                                THEN SimpleResponse_new(0, 0) ELSE NoneRec]
    /\ sent = <<>>
    /\ result = RNone
    /\ \E privileged \in BOOLEAN : net = Peer(privileged, PartialWrite)
    /\ did = NoneRec
    /\ IdleRoute
    /\ IdlePath

\* the peer starts sending a request
ClientSend ==
    /\ conn.open /\ conn.status = "Read"
    /\ net.wire = NoneRec /\ net.nreq < MaxRequests
    /\ \E w \in Wires :
         net' = [net EXCEPT !.wire = w, !.head_left = w.head_len,
                            !.body_left = w.req.content_length,
                            !.nreq = net.nreq + 1]
    /\ did' = NoneRec
    /\ UNCHANGED <<conn, sent, result, routeVars, pathVars, loopVars>>

\* What stream.read(&mut buf) can return: nothing yet, an error, end of
\* stream, or 1..ReadBufSize of the bytes the peer has sent.
ReadOutcomes ==
    LET avail == IF net.wire = NoneRec THEN 0 ELSE net.head_left + net.body_left
        most == IF avail > ReadBufSize THEN ReadBufSize ELSE avail
    IN { [k |-> "WouldBlock", n |-> 0], [k |-> "Err", n |-> 0], [k |-> "Ok", n |-> 0] }
       \cup { [k |-> "Ok", n |-> m] : m \in {1, most} \cap (1..most) }

\* the bytes of a read, as so many of the head and so many of the body
Taken(ev) ==
    Chunk(IF ev.n > net.head_left THEN net.head_left ELSE ev.n,
          IF ev.n > net.head_left THEN ev.n - net.head_left ELSE 0,
          net.wire)

Consumed(ch) ==
    [net EXCEPT !.head_left = net.head_left - ch.head,
                !.body_left = net.body_left - ch.body]

\* a readable event on a connection in Read: handle_read_state; None removes
\* the connection
ReadEvent ==
    /\ conn.open /\ conn.status = "Read" /\ conn.driver = "state"
    /\ \E ev \in ReadOutcomes, cgi_ok \in BOOLEAN :
       \E ch \in {Taken(ev)} :
       \E h \in {handle_read_state(conn, Listener, ev, ch, net.privileged, cgi_ok)} :
          /\ conn' = IF h.res = RNone THEN [h.c EXCEPT !.open = FALSE] ELSE h.c
          /\ result' = h.res
          /\ did' = IF h.did = NoneRec THEN did ELSE h.did
          /\ net' = Consumed(ch)
          /\ sent' = IF h.c.status = "Write" THEN <<>> ELSE sent
    /\ UNCHANGED <<routeVars, pathVars, loopVars>>

\* a readable event in the loop of server.rs: Server::handle_read; Close
\* removes the connection
ServerReadEvent ==
    /\ conn.open /\ conn.status = "Read" /\ conn.driver = "server"
    /\ \E ev \in ReadOutcomes :
       \E ch \in {Taken(ev)} :
       \E h \in {handle_read(conn, Router, ev, ch)} :
          /\ conn' = IF h.res = "Close" THEN [h.c EXCEPT !.open = FALSE] ELSE h.c
          /\ result' = h.res
          /\ did' = IF h.did = NoneRec THEN did ELSE h.did
          /\ net' = Consumed(ch)
          /\ sent' = IF h.c.status = "Write" THEN <<>> ELSE sent
    /\ UNCHANGED <<routeVars, pathVars, loopVars>>

\* a writable event in the loop of server.rs: Server::handle_write; Close and
\* the sweep of Finish connections remove the connection
ServerWriteEvent ==
    /\ conn.open /\ conn.status = "Write" /\ conn.driver = "server"
    /\ \E wo \in WriteOutcomes(conn.response.data_len - conn.response.index,
                               net.part) :
       \E w \in {handle_write(conn, wo)} :
          /\ conn' = IF w.res = "Close" \/ w.c.status = "Finish"
                     THEN [w.c EXCEPT !.open = FALSE] ELSE w.c
          /\ sent' = AppendRun(sent, w.out)
          /\ result' = w.res
    /\ UNCHANGED <<net, did, routeVars, pathVars, loopVars>>

Next ==
    \/ ClientSend
    \/ ReadEvent
    \/ WriteEvent
    \/ ServerReadEvent
    \/ ServerWriteEvent

Spec == Init /\ [][Next]_vars

\* the request of the connection carried `Connection: keep-alive`
CarriesKeepAlive(c) ==
    /\ c.request.request /= NoneRec
    /\ to_lowercase(c.request.request.connection) = "keep-alive"

\* the response slot holds something to send
ResponseInstalled(c) ==
    IF c.driver = "server" THEN c.response.data_len > 0
    ELSE c.response /= NoneRec

\* C1: for every request whose received body bytes exceed the
\* client_max_body_size of the server selected for it (the server of its Host
\* header), handle_read_state moves the connection to Write with the 413
\* response, body_too_large set and the parser Complete, and no route
\* dispatch is made for that request.
C1_AdmissionControl ==
    (conn.driver = "state" /\ conn.status = "Write" /\ did /= NoneRec
     /\ acc_body_len(conn.request) > did.server.client_max_body_size) =>
        /\ did.kind = "413"
        /\ did.ops = {}
        /\ conn.body_too_large
        /\ acc_done(conn.request)
        /\ did.resp = build(413, 17, 0, 22)
        /\ conn.response.code = 413

\* C2: the body bytes accumulated in the request builder of a connection
\* never exceed max_body_size plus one read buffer, whatever the sizes of
\* the reads; body bytes are only held once the limit is known.
C2_BoundedBuffering ==
    (conn.driver = "state" /\ acc_body_len(conn.request) > 0) =>
        /\ conn.max_body_size /= <<>>
        /\ acc_body_len(conn.request) <= conn.max_body_size[1] + ReadBufSize

C2_Witness ==
    /\ conn.driver = "state"
    /\ conn.max_body_size /= <<>>
    /\ acc_body_len(conn.request) = conn.max_body_size[1] + ReadBufSize
    /\ conn.body_too_large
    /\ net.body_left > 0

\* C3: whenever the phase of a connection is Write, its response slot is
\* non-empty.
C3_WriteHasResponse ==
    conn.status = "Write" => ResponseInstalled(conn)

C3_Witness ==
    /\ conn.status = "Write" /\ conn.open
    /\ did /= NoneRec /\ did.kind = "413"
    /\ ResponseInstalled(conn)
    /\ sent = <<>>

\* C4: when a response has been completely written and the request carried
\* `Connection: keep-alive`, the connection is not closed: it leaves Write
\* open, in Read, with a fresh request builder and an empty response slot
\* (a connection lost to an I/O error is not counted).
C4_KeepAliveReset ==
    [][ (/\ conn.status = "Write" /\ conn.open
         /\ CarriesKeepAlive(conn)
         /\ sent' = Full(conn.response)
         /\ (conn'.status /= "Write" \/ conn'.shutdown))
        => (/\ conn'.open
            /\ conn'.status = "Read"
            /\ conn'.request = HttpRequestBuilder_new
            /\ ~ResponseInstalled(conn')) ]_vars

CR == "CR"
LF == "LF"
SP == " "
HT == "TAB"
CRLF == <<CR, LF>>

\* char::is_whitespace on the bytes of the model
IsWhitespace(ch) == ch \in {SP, HT, CR, LF}

\* str::lines: the pieces between LF, a CR before the LF dropped; the piece
\* after a final LF is not a line
Lines(s) ==
    LET pieces == Split(s, LF)
        kept == IF pieces[Len(pieces)] = <<>>
                THEN SubSeq(pieces, 1, Len(pieces) - 1) ELSE pieces
    IN [i \in 1..Len(kept) |->
          IF i <= Len(pieces) - 1 /\ kept[i] /= <<>> /\ kept[i][Len(kept[i])] = CR
          THEN SubSeq(kept[i], 1, Len(kept[i]) - 1) ELSE kept[i]]

\* str::split_whitespace: the maximal runs of non-whitespace
RECURSIVE SplitWs(_, _, _)
SplitWs(s, cur, acc) ==
    IF s = <<>> THEN (IF cur = <<>> THEN acc ELSE Append(acc, cur))
    ELSE IF IsWhitespace(Head(s))
    THEN SplitWs(Tail(s), <<>>, IF cur = <<>> THEN acc ELSE Append(acc, cur))
    ELSE SplitWs(Tail(s), Append(cur, Head(s)), acc)

split_whitespace(s) == SplitWs(s, <<>>, <<>>)

\* str::trim
RECURSIVE Trim(_)
Trim(s) ==
    IF s /= <<>> /\ IsWhitespace(Head(s)) THEN Trim(Tail(s))
    ELSE IF s /= <<>> /\ IsWhitespace(s[Len(s)]) THEN Trim(SubSeq(s, 1, Len(s) - 1))
    ELSE s

\* str::split_once(":"): <<>> when there is no `:`, else <<(key, val)>>
split_once(s) ==
    LET at == {i \in 1..Len(s) : s[i] = ":"} IN
    IF at = {} THEN <<>>
    ELSE LET i == CHOOSE i \in at : \A j \in at : i <= j
         IN << <<SubSeq(s, 1, i - 1), SubSeq(s, i + 1, Len(s))>> >>

\* HttpMethod, Other carrying the method as written
HttpMethod(name, other) == [name |-> name, other |-> other]

\* HttpMethod::from_str
HttpMethod_from_str(tok) ==
    IF tok = <<"G", "E", "T">> THEN HttpMethod("GET", <<>>)
    ELSE IF tok = <<"P", "O", "S", "T">> THEN HttpMethod("POST", <<>>)
    ELSE IF tok = <<"D", "E", "L", "E", "T", "E">> THEN HttpMethod("DELETE", <<>>)
    ELSE HttpMethod("Other", tok)

\* request.rs HttpRequestBuilder::new
buffer_new == [buffer |-> <<>>, request |-> NoneRec]

\* Mutant of HttpRequestBuilder::done: the first CRLF ends the head.
buffer_done_FirstCrLf(b) ==
    \E i \in 1..(Len(b.buffer) - 1) : SubSeq(b.buffer, i, i + 1) = CRLF

\* request.rs HttpRequestBuilder::done: the buffer holds CRLF CRLF
buffer_done(b) ==
    \E i \in 1..(Len(b.buffer) - 3) : SubSeq(b.buffer, i, i + 3) = CRLF \o CRLF

\* request.rs, lines 39-47: the header lines up to the first empty one, each
\* trimmed and split at its first `:`
RECURSIVE ParseHeaders(_, _, _)
ParseHeaders(lines, i, headers) ==
    IF i > Len(lines) \/ Trim(lines[i]) = <<>> THEN headers
    ELSE ParseHeaders(lines, i + 1, headers \o split_once(Trim(lines[i])))

\* request.rs HttpRequestBuilder::append
buffer_append(b, data) ==
    LET grown == [b EXCEPT !.buffer = b.buffer \o data]
        Parsed(lines, parts) ==
            IF Len(parts) /= 3 THEN [ok |-> FALSE, b |-> grown]
            ELSE [ok |-> TRUE,
                  b |-> [grown EXCEPT !.request =
                           [method |-> HttpMethod_from_str(parts[1]),
                            path |-> parts[2], version |-> parts[3],
                            headers |-> ParseHeaders(lines, 2, <<>>)]]]
        Lined(lines) ==
            IF lines = <<>> THEN [ok |-> TRUE, b |-> grown]
            ELSE Parsed(lines, split_whitespace(lines[1]))
    IN IF ~buffer_done(grown) THEN [ok |-> TRUE, b |-> grown]
       ELSE Lined(Lines(grown.buffer))

\* request.rs HttpRequestBuilder::get
buffer_get(b) == b.request

\* --------------------------------------------------- parsing specification
\* A byte stream is written out from a request line, header lines and a
\* body, and fed to the builder in pieces of every size up to MaxChunk.

MaxChunk == 3

\* a method as it is written and as HttpMethod names it
MethodTokens ==
    { [tok |-> <<"G", "E", "T">>, method |-> HttpMethod("GET", <<>>)],
      [tok |-> <<"P", "O", "S", "T">>, method |-> HttpMethod("POST", <<>>)],
      [tok |-> <<"P", "U", "T">>,
       method |-> HttpMethod("Other", <<"P", "U", "T">>)] }

PathTokens == { <<"/">>, <<"/", "a">> }

VersionToken == <<"H", "1">>

Separators == { <<SP>>, <<SP, SP>>, <<HT>> }

\* request lines of three tokens, with what they spell
GoodLines ==
    { [text |-> lead \o m.tok \o s1 \o path \o s2 \o VersionToken,
       line |-> [method |-> m.method, path |-> path, version |-> VersionToken]] :
        m \in MethodTokens, path \in PathTokens, s1 \in Separators,
        s2 \in Separators, lead \in {<<>>, <<SP>>} }

\* request lines of no, two and four tokens
BadLines ==
    { [text |-> t, line |-> NoneRec] :
        t \in { <<>>, <<"G", "E", "T", SP, "/">>,
                <<"G", "E", "T", SP, "/", SP, "H", "1", SP, "x">> } }

\* the header line `Transfer-Encoding: chunked`; the name and the value are
\* each written as one element
ChunkedHeader == <<"Transfer-Encoding", ":", SP, "chunked">> \o CRLF

HeaderBlocks ==
    { <<>>, <<"k", ":", "v">> \o CRLF,
      <<"k", ":", SP, "v">> \o CRLF \o <<"n">> \o CRLF,
      ChunkedHeader }

\* the last body is a chunked one: a chunk of one byte, then the last chunk
Bodies ==
    { <<>>, <<"x">>, CRLF \o CRLF \o <<"x", SP, "y">>,
      <<"1">> \o CRLF \o <<"x">> \o CRLF \o <<"0">> \o CRLF \o CRLF }

InitParse ==
    /\ \E l \in GoodLines \cup BadLines, h \in HeaderBlocks, body \in Bodies :
         px_in = [kind |-> "Stream",
                  stream |-> l.text \o CRLF \o h \o CRLF \o body,
                  head_len |-> Len(l.text) + 2 + Len(h) + 2,
                  line |-> l.line, chunked |-> (h = ChunkedHeader)]
    /\ px_out = [kind |-> "Builder", b |-> buffer_new, fed |-> 0, ok |-> TRUE]
    /\ IdleRoute
    /\ IdleConn
    /\ IdleLoop

\* the next bytes of the stream are appended, as Server::handle_read does with
\* what a read returned; an Err ends the feeding
FeedBytes ==
    /\ px_in /= NoneRec /\ px_in.kind = "Stream"
    /\ px_out.ok /\ px_out.fed < Len(px_in.stream)
    /\ \E n \in (1..MaxChunk) \cup {Len(px_in.stream) - px_out.fed} :
         /\ n <= Len(px_in.stream) - px_out.fed
         /\ \E a \in {buffer_append(px_out.b,
                                     SubSeq(px_in.stream, px_out.fed + 1,
                                            px_out.fed + n))} :
              px_out' = [kind |-> "Builder", b |-> a.b,
                         fed |-> px_out.fed + n, ok |-> a.ok]
    /\ UNCHANGED <<px_in, routeVars, connVars, loopVars>>

SpecParse == InitParse /\ [][FeedBytes]_vars

\* C17: however the stream is split over the appends, no parsed request is
\* exposed before the head terminator has been received; once it has, the
\* head is complete (done()) and, the request line being three tokens, the
\* request exposed has them as its method, path and version.
C17_HeadDetection ==
    (px_in /= NoneRec /\ px_in.kind = "Stream") =>
        /\ px_out.fed < px_in.head_len =>
              ~buffer_done(px_out.b) /\ buffer_get(px_out.b) = NoneRec
        /\ px_out.fed >= px_in.head_len =>
              /\ buffer_done(px_out.b)
              /\ px_in.line /= NoneRec =>
                    /\ px_out.ok
                    /\ buffer_get(px_out.b) /= NoneRec
                    /\ buffer_get(px_out.b).method = px_in.line.method
                    /\ buffer_get(px_out.b).path = px_in.line.path
                    /\ buffer_get(px_out.b).version = px_in.line.version

C17_Witness ==
    /\ px_in /= NoneRec /\ px_in.kind = "Stream"
    /\ px_out.fed = px_in.head_len
    /\ px_in.line /= NoneRec /\ px_in.line.method.name = "POST"
    /\ px_in.line.path = <<"/", "a">>
    /\ buffer_get(px_out.b) /= NoneRec
    /\ buffer_get(px_out.b).path = <<"/", "a">>
    /\ Len(buffer_get(px_out.b).headers) = 1

\* The server the claim names for a request: the one whose server_name is the
\* Host value before the first `:`, else the default server of the listener.
BeforeColon(host) ==
    LET cut == {i \in 1..Len(host) : host[i] = ":"} IN
    IF cut = {} THEN host
    ELSE SubSeq(host, 1, (CHOOSE i \in cut : \A j \in cut : i <= j) - 1)

ServerOfHost(listener, host) ==
    LET named == {i \in 1..Len(listener.servers) :
                     listener.servers[i].server_name = BeforeColon(host)} IN
    IF host /= <<>> /\ named /= {}
    THEN listener.servers[CHOOSE i \in named : \A j \in named : i <= j]
    ELSE listener.servers[listener.default_server_index]

\* C11: a request that has been routed was handled with the server its Host
\* header names (the default server when no server_name matches or Host is
\* absent): the answer is the one the routes and root of that server give.
C11_VirtualHost ==
    (/\ conn.status = "Write" /\ did /= NoneRec /\ did.kind /= "413"
     /\ conn.request.request /= NoneRec) =>
        /\ did.server = ServerOfHost(Listener, conn.request.request.host)
        /\ conn.driver = "state" =>
              \E cgi_ok \in BOOLEAN :
                 did = Made(dispatch(ServerOfHost(Listener, conn.request.request.host),
                                     conn.request.request, net.privileged, cgi_ok),
                            ServerOfHost(Listener, conn.request.request.host))

\* the file a GET of the dispatch tried to open: the resolved path, "" when
\* the resolution was rejected
GetTarget(out) == IF out.resolved.some THEN out.resolved.path ELSE <<>>

\* C12: a GET for a file that cannot be opened is answered with status 404:
\* with the configured 404 page as body when that page opens, and with the
\* minimal in-memory 404 otherwise.
C12_GetNotFound ==
    (px_out /= NoneRec /\ px_out.kind = "GET" /\ ~OsOpen(GetTarget(px_out)).ok) =>
        /\ px_out.resp.code = 404
        /\ IF OsOpen(get_error_page_path(px_in.server, 404)).ok
           THEN px_out.resp.kind = "File"
           ELSE px_out.resp = build(404, 9, 0, 0)

\* the request for which handle_read_state installed the response now being
\* written, and the route it selected
Answered ==
    /\ conn.driver = "state" /\ conn.status = "Write"
    /\ did /= NoneRec /\ did.kind /= "413"
    /\ conn.request.request /= NoneRec

RouteOf(made) == made.server.routes[made.route]

C15_ParseErrorAnswered ==
    [][ (/\ net.wire /= NoneRec /\ ~net.wire.line_ok
         /\ net.head_left > 0 /\ net'.head_left = 0)
        => (/\ conn'.open
            /\ conn'.status = "Write"
            /\ conn'.response /= NoneRec
            /\ conn'.response.code = 400) ]_vars

\* C16: whatever the split of the request bytes over the reads, done() of the
\* builder of request.rs is true exactly when the head terminator has been
\* received and the body bytes received are at least the declared
\* Content-Length.
C16_DoneIffComplete ==
    (conn.driver = "server" /\ net.wire /= NoneRec) =>
        (done(conn.request) <=>
            /\ conn.request.head_rcvd >= net.wire.head_len
            /\ conn.request.body_len >= net.wire.req.content_length)

\* ------------------------------------------------ server.rs, the event loop
\* Server::run: the listeners are bound, then the loop serves readiness events
\* one by one.  srv is the Server; a connection is a SocketData, its stream
\* (what the peer sent and the socket has not yet handed over) and its
\* SocketStatus.

MaxAccepts == 2
MaxTime == 3
IdleTimeout == 1

\* config.rs ServerConfig with the fields the loop binds: host, ports and the
\* default_server flag
ServerConfigAt(server, host, ports, default_server) ==
    [server_name |-> server.server_name, host |-> host, ports |-> ports,
     default_server |-> default_server, error_pages |-> server.error_pages,
     client_max_body_size |-> server.client_max_body_size,
     root |-> server.root, routes |-> server.routes]

\* config.rs Config: one server on one port, one server on two ports, two
\* servers that declare the same (host, port), two servers on two ports
Configs ==
    LET a == Listener.servers[1]
        b == Listener.servers[2]
    IN { << ServerConfigAt(a, "h", <<80>>, TRUE) >>,
         << ServerConfigAt(a, "h", <<80, 81>>, TRUE) >>,
         << ServerConfigAt(a, "h", <<80>>, TRUE),
            ServerConfigAt(b, "h", <<80>>, FALSE) >>,
         << ServerConfigAt(a, "h", <<80>>, FALSE),
            ServerConfigAt(b, "h", <<81>>, FALSE) >> }

\* server.rs lines 60-62: the addresses bound, in the order of the two loops
RECURSIVE Addrs(_)
Addrs(servers) ==
    IF servers = <<>> THEN <<>>
    ELSE [i \in 1..Len(Head(servers).ports) |->
             [host |-> Head(servers).host, port |-> Head(servers).ports[i]]]
         \o Addrs(Tail(servers))

\* HashMap::new()
EmptyMap == [t \in {} |-> NoneRec]

\* HashMap::insert
Insert(map, t, v) == [u \in DOMAIN map \cup {t} |-> IF u = t THEN v ELSE map[u]]

\* Mutant of Remove: the entry stays in the table.
Remove_Keeps(map, t) == map

\* HashMap::remove
Remove(map, t) == [u \in DOMAIN map \ {t} |-> map[u]]

\* server.rs Server::new, and lines 55-57 of Server::run: the Router is loaded
\* with the routes of the first server of the configuration
Server_new(config) ==
    [kind |-> "Server", state |-> "binding", config |-> config,
     todo |-> Addrs(config), listeners |-> {}, connections |-> EmptyMap,
     router |-> [config_routes |-> Head(config).routes,
                 loaded_from |-> Head(config)],
     next_token |-> 1]

\* an io error leaves Server::run through `?`; main reports it and the
\* process ends, every socket with it
Failed(s) ==
    [s EXCEPT !.state = "failed", !.listeners = {}, !.connections = EmptyMap]

\* Mutant of SocketData_new: the connection is born in Write.
SocketData_new_InWrite ==
    [stream |-> Peer(FALSE, PartialWrite),
     status |-> [NewConn EXCEPT !.driver = "server", !.status = "Write",
                                !.response = SimpleResponse_new(0, 0)]]

\* server.rs lines 168-179: the SocketData of an accepted stream
SocketData_new ==
    [stream |-> Peer(FALSE, PartialWrite),
     status |-> [NewConn EXCEPT !.driver = "server",
                                !.response = SimpleResponse_new(0, 0)]]

\* server.rs lines 148-152: the sweep at the end of a turn of the loop keeps
\* the connections whose status is not Finish
Sweep(connections) ==
    [t \in { u \in DOMAIN connections : connections[u].status.status /= "Finish" }
       |-> connections[t]]

\* the requests a peer of the loop may send: a good one, one for another
\* host, one with a malformed request line
LoopWires ==
    { Wire(Request("GET", <<"/">>, <<"a">>, "", 0, <<>>, <<>>), TRUE),
      Wire(Request("GET", <<"/", "n">>, <<"b", ":", "80">>, "", 0, <<>>, <<>>), TRUE),
      Wire(Request("GET", <<"/">>, <<"a">>, "", 0, <<>>, <<>>), FALSE) }

\* What stream.read(&mut buffer) can return on a stream
StreamRead(stream) ==
    LET avail == IF stream.wire = NoneRec THEN 0
                 ELSE stream.head_left + stream.body_left
        most == IF avail > ReadBufSize THEN ReadBufSize ELSE avail
    IN { [k |-> "WouldBlock", n |-> 0], [k |-> "Err", n |-> 0], [k |-> "Ok", n |-> 0] }
       \cup { [k |-> "Ok", n |-> m] : m \in {1, most} \cap (1..most) }

\* the bytes of a read of a stream
TakenFrom(stream, ev) ==
    Chunk(IF ev.n > stream.head_left THEN stream.head_left ELSE ev.n,
          IF ev.n > stream.head_left THEN ev.n - stream.head_left ELSE 0,
          stream.wire)

ConsumedFrom(stream, ch) ==
    [stream EXCEPT !.head_left = stream.head_left - ch.head,
                   !.body_left = stream.body_left - ch.body]

InitLoop ==
    /\ now = 0
    /\ \E config \in Configs : srv = Server_new(config)
    /\ IdleRoute
    /\ IdleConn
    /\ IdlePath

\* server.rs lines 60-77, one turn of the inner loop: the next address is
\* bound and registered under a fresh token; binding an address this process
\* is already listening on fails, and `?` ends run
BindNext ==
    /\ srv.state = "binding" /\ srv.todo /= <<>>
    /\ \E addr \in {Head(srv.todo)} :
         srv' = IF \E l \in srv.listeners : l.addr = addr
                THEN Failed(srv)
                ELSE [srv EXCEPT
                        !.listeners = @ \cup {[token |-> srv.next_token, addr |-> addr]},
                        !.next_token = @ + 1,
                        !.todo = Tail(@),
                        !.state = IF Tail(srv.todo) = <<>> THEN "running" ELSE "binding"]
    /\ UNCHANGED <<now, routeVars, connVars, pathVars>>

\* server.rs lines 90-92 and accept_connections: an event on a listener with
\* one stream waiting; the stream is registered under a fresh token, and a
\* registration that fails leaves run through `?`
Accept ==
    /\ srv.state = "running"
    /\ srv.next_token <= Cardinality(srv.listeners) + MaxAccepts
    /\ \E l \in srv.listeners, reg_ok \in BOOLEAN :
         srv' = IF ~reg_ok
                THEN Failed([srv EXCEPT !.next_token = @ + 1])
                ELSE [srv EXCEPT
                        !.connections = Sweep(Insert(@, srv.next_token, SocketData_new)),
                        !.next_token = @ + 1]
    /\ UNCHANGED <<now, routeVars, connVars, pathVars>>

\* the peer of a connection sends a request
PeerSend ==
    /\ srv.state = "running"
    /\ \E t \in DOMAIN srv.connections, w \in LoopWires :
         /\ srv.connections[t].stream.wire = NoneRec
         /\ srv.connections[t].stream.nreq < 1
         /\ srv' = [srv EXCEPT !.connections[t].stream =
                      [@ EXCEPT !.wire = w, !.head_left = w.head_len,
                                !.body_left = w.req.content_length,
                                !.nreq = @ + 1]]
    /\ UNCHANGED <<now, routeVars, connVars, pathVars>>

\* The event the loop handled last: the token of its connection, and whether
\* the read or write made for it ended the connection (a read of 0 bytes, an
\* error other than WouldBlock).
Event(t, fatal) == [kind |-> "Event", token |-> t, fatal |-> fatal]

\* server.rs lines 93-117: a readable event on a connection; Close removes
\* it, NeedsWrite re-registers it for writing, and a re-registration that
\* fails leaves run through `?`
Readable ==
    /\ srv.state = "running"
    /\ \E t \in DOMAIN srv.connections :
         /\ srv.connections[t].status.status = "Read"
         /\ \E ev \in StreamRead(srv.connections[t].stream), reg_ok \in BOOLEAN :
            \E ch \in {TakenFrom(srv.connections[t].stream, ev)} :
            \E h \in {handle_read(srv.connections[t].status, srv.router, ev, ch)} :
            /\ srv' = IF h.res = "Close"
                      THEN [srv EXCEPT !.connections = Sweep(Remove(@, t))]
                      ELSE IF h.res = "NeedsWrite" /\ ~reg_ok
                      THEN Failed(srv)
                      ELSE [srv EXCEPT !.connections =
                              Sweep([@ EXCEPT ![t] =
                                 [stream |-> ConsumedFrom(@.stream, ch),
                                  status |-> h.c]])]
            /\ did' = Event(t, ev.k = "Err" \/ (ev.k = "Ok" /\ ev.n = 0))
    /\ UNCHANGED <<now, routeVars, conn, sent, result, net, pathVars>>

\* server.rs lines 118-152: a writable event on a connection; Close removes
\* it, KeepAlive re-registers it for reading, and the sweep removes it once
\* its status is Finish
Writable ==
    /\ srv.state = "running"
    /\ \E t \in DOMAIN srv.connections :
         /\ srv.connections[t].status.status = "Write"
         /\ \E wo \in WriteOutcomes(srv.connections[t].status.response.data_len
                                    - srv.connections[t].status.response.index,
                                    srv.connections[t].stream.part),
               reg_ok \in BOOLEAN :
            \E w \in {handle_write(srv.connections[t].status, wo)} :
            /\ srv' = IF w.res = "Close"
                      THEN [srv EXCEPT !.connections = Sweep(Remove(@, t))]
                      ELSE IF w.res = "KeepAlive" /\ ~reg_ok
                      THEN Failed(srv)
                      ELSE [srv EXCEPT !.connections =
                              Sweep([@ EXCEPT ![t].status = w.c])]
            /\ did' = Event(t, wo.k = "Err")
    /\ UNCHANGED <<now, routeVars, conn, sent, result, net, pathVars>>

\* the clock advances; poll(&mut self.events, None) of line 81 does not
\* return for it
Tick ==
    /\ now < MaxTime
    /\ now' = now + 1
    /\ UNCHANGED <<srv, routeVars, connVars, pathVars>>

NextLoop ==
    \/ BindNext
    \/ Accept
    \/ PeerSend
    \/ Readable
    \/ Writable
    \/ Tick

SpecLoop == InitLoop /\ [][NextLoop]_vars

\* The loop itself is always scheduled: startup runs to its end and time
\* passes.  Readiness events are the environment's and may never come.
SpecLoopFair == SpecLoop /\ WF_vars(BindNext) /\ WF_vars(Tick)

\* the tokens the loop can hand out
Tokens == 1..(2 + MaxAccepts)

\* connection t has had no byte read or written for longer than the timeout
Idle(t) ==
    /\ t \in DOMAIN srv.connections
    /\ now - srv.connections[t].status.ttl > IdleTimeout

\* C18: a connection on which no bytes are read or written for longer than
\* the idle timeout is eventually removed by the loop, in whatever phase it
\* is, even if no readiness event ever arrives again.
C18_IdleTimeout ==
    \A t \in Tokens : Idle(t) ~> (t \notin DOMAIN srv.connections)

\* every connection but t is still a member, with its phase, request builder
\* and response as they were
OthersUntouched(t) ==
    \A u \in DOMAIN srv.connections \ {t} :
        /\ u \in DOMAIN srv'.connections
        /\ srv'.connections[u].status = srv.connections[u].status

\* C19: whatever happens on one connection (a read error, a write error, a
\* parse error, the peer closing, a registration that fails), a step of the
\* running loop changes that connection only, every other connection keeps
\* its phase, request builder, response and membership, and the loop is
\* still running afterwards.
C19_ConnectionIsolation ==
    [][ srv.state = "running" =>
           /\ srv'.state = "running"
           /\ \E t \in Tokens : OthersUntouched(t) ]_vars

\* the distinct (host, port) pairs a configuration declares
Pairs(config) == { Addrs(config)[i] : i \in 1..Len(Addrs(config)) }

\* startup is over: every address has been bound, or binding one has failed
StartupFailed == srv.state = "failed" /\ srv.todo /= <<>>

\* C20: for any configuration, several servers declaring the same
\* (host, port) included, startup succeeds, and once the loop runs exactly
\* one listener is bound for each distinct (host, port) pair.
C20_ListenerCoalescing ==
    /\ ~StartupFailed
    /\ srv.state = "running" =>
          \A a \in Pairs(srv.config) :
              Cardinality({ l \in srv.listeners : l.addr = a }) = 1

\* ------------------------------------------------------------- later claims

\* the body limit of the server that answers for the Host of the request
\* whose head the builder holds
LimitOfHost(c) ==
    <<ServerOfHost(Listener, c.request.request.host).client_max_body_size>>

\* C21: server_selected implies that max_body_size is set; the latch is set
\* by the read that completes the head, with the limit of the server of the
\* request's Host, and later reads of the same request leave server_selected
\* and max_body_size as they are.
C21_HostLatch ==
    /\ [](conn.driver = "state" =>
             (conn.server_selected => conn.max_body_size /= <<>>))
    /\ [][ conn.driver = "state" =>
             /\ (~conn.server_selected /\ conn'.server_selected) =>
                   /\ ~acc_header_done(conn.request)
                   /\ acc_header_done(conn'.request)
                   /\ conn'.max_body_size = LimitOfHost(conn')
             /\ (~acc_header_done(conn.request) /\ acc_header_done(conn'.request)) =>
                   conn'.server_selected
             /\ (conn.server_selected /\ acc_header_done(conn.request)
                 /\ conn.status = "Read") =>
                   /\ conn'.server_selected
                   /\ conn'.max_body_size = conn.max_body_size ]_vars

\* the head of a request for server b has been read, its limit latched, and
\* body bytes have arrived in a later read
C21_Witness ==
    /\ conn.driver = "state" /\ conn.status = "Read"
    /\ conn.server_selected /\ conn.max_body_size = <<3>>
    /\ conn.request.state = "Body" /\ conn.request.body_len > 0

\* the files the dispatch wrote
Written(out) == { op \in out.ops : op.op = "write" }

\* the first token of a Content-Type is one of the prefixes of a direct upload
IsDirectType(ct) ==
    /\ Len(ct) >= 2 /\ ct[2] = "/"
    /\ ct[1] \in {"application", "image", "audio", "video", "font", "text"}

IsMultipartType(ct) == ct /= <<>> /\ ct[1] = "multipart/form-data"

\* C22: a POST with no body is answered 400; with a body and no Content-Type
\* 400; with a Content-Type that is neither multipart/form-data nor one of
\* the direct prefixes 415; a multipart POST all of whose parts are written
\* 201; and in the 400 and 415 cases no file is written.
C22_PostStatus ==
    (px_out /= NoneRec /\ px_out.kind = "POST") =>
        LET request == px_in.request IN
        /\ request.body_len = 0 => px_out.resp.code = 400
        /\ (request.body_len > 0 /\ request.content_type = <<>>) =>
              px_out.resp.code = 400
        /\ (request.body_len > 0 /\ request.content_type /= <<>>
            /\ ~IsMultipartType(request.content_type)
            /\ ~IsDirectType(request.content_type)) => px_out.resp.code = 415
        /\ (request.body_len > 0 /\ IsMultipartType(request.content_type)
            /\ request.files /= <<>>
            /\ Cardinality(Written(px_out)) = Len(request.files)) =>
              px_out.resp.code = 201
        /\ px_out.resp.code \in {400, 415} => Written(px_out) = {}

\* a multipart POST with two parts, both written
C22_Witness ==
    /\ px_out /= NoneRec /\ px_out.kind = "POST"
    /\ IsMultipartType(px_in.request.content_type)
    /\ Len(px_in.request.files) = 2
    /\ Cardinality(Written(px_out)) = 2
    /\ px_out.resp.code = 201

\* the name a direct upload is to be stored under: the last segment of the
\* request path, or a generated name with the subtype as its extension
UploadName(request) ==
    LET segs == Split(request.path, "/")
        subtype == SubSeq(request.content_type, 3, Len(request.content_type))
    IN IF segs[Len(segs)] /= <<>> THEN segs[Len(segs)]
       ELSE <<"upload_uuid", ".">> \o subtype

\* C23: a direct (non-multipart) POST upload that is answered 201 has written
\* exactly one file, under the storage directory of the route, named after
\* the last segment of the request path when that segment is non-empty and
\* otherwise by a generated name whose extension is the Content-Type subtype.
C23_DirectUpload ==
    (/\ px_out /= NoneRec /\ px_out.kind = "POST"
     /\ px_in.request.body_len > 0
     /\ IsDirectType(px_in.request.content_type)
     /\ px_out.resp.code = 201) =>
        \E op \in px_out.ops :
           /\ Written(px_out) = {op}
           /\ PathStartsWith(op.at, BaseOf(px_in.server, px_out.route))
           /\ op.at[Len(op.at)] = UploadName(px_in.request)

\* C24: a request whose head carries `Transfer-Encoding: chunked` is
\* rejected: once its head has been received the builder has returned the
\* error that is answered 400, and it exposes no request.
C24_ChunkedRejected ==
    (/\ px_in /= NoneRec /\ px_in.kind = "Stream"
     /\ px_in.chunked /\ px_in.line /= NoneRec
     /\ px_out.fed >= px_in.head_len) =>
        /\ ~px_out.ok
        /\ buffer_get(px_out.b) = NoneRec

\* ------------------------------------------- content type specification
\* The two extension tables of the sources, applied to file paths.

\* router.rs get_content_type: the text after the last `.` of the path is
\* looked up; None when it is not in the table.  A value is its media type
\* and its parameter.
get_content_type(path) ==
    LET pieces == Split(path, ".")
        extension == pieces[Len(pieces)]
        Some(media, param) == << [media |-> media, param |-> param] >>
    IN IF extension = <<"h", "t", "m", "l">> \/ extension = <<"h", "t", "m">>
       THEN Some("text/html", "charset=utf-8")
       ELSE IF extension = <<"c", "s", "s">> THEN Some("text/css", "")
       ELSE IF extension = <<"j", "s">> THEN Some("application/javascript", "")
       ELSE IF extension = <<"j", "s", "o", "n">> THEN Some("application/json", "")
       ELSE IF extension = <<"p", "n", "g">> THEN Some("image/png", "")
       ELSE IF extension = <<"j", "p", "g">> \/ extension = <<"j", "p", "e", "g">>
       THEN Some("image/jpeg", "")
       ELSE IF extension = <<"g", "i", "f">> THEN Some("image/gif", "")
       ELSE IF extension = <<"s", "v", "g">> THEN Some("image/svg+xml", "")
       ELSE IF extension = <<"t", "x", "t">> THEN Some("text/plain", "")
       ELSE IF extension = <<"p", "d", "f">> THEN Some("application/pdf", "")
       ELSE <<>>

\* the extensions of the table of the spec with their types, and some others
Extensions ==
    { [ext |-> <<"h", "t", "m", "l">>, type |-> "text/html"],
      [ext |-> <<"h", "t", "m">>, type |-> "text/html"],
      [ext |-> <<"c", "s", "s">>, type |-> "text/css"],
      [ext |-> <<"j", "s">>, type |-> "application/javascript"],
      [ext |-> <<"j", "s", "o", "n">>, type |-> "application/json"],
      [ext |-> <<"p", "n", "g">>, type |-> "image/png"],
      [ext |-> <<"j", "p", "g">>, type |-> "image/jpeg"],
      [ext |-> <<"j", "p", "e", "g">>, type |-> "image/jpeg"],
      [ext |-> <<"g", "i", "f">>, type |-> "image/gif"],
      [ext |-> <<"s", "v", "g">>, type |-> "image/svg+xml"],
      [ext |-> <<"t", "x", "t">>, type |-> "text/plain"],
      [ext |-> <<"p", "d", "f">>, type |-> "application/pdf"],
      [ext |-> <<"z">>, type |-> "application/octet-stream"],
      [ext |-> <<"h", "t">>, type |-> "application/octet-stream"],
      [ext |-> <<>>, type |-> "application/octet-stream"] }

\* what comes before the extension
Stems == { <<"a">>, <<"s", "/", "a">>, <<"a", ".", "j", "s">>, <<"s", ".", "d", "/", "a">> }

\* a file path of the model, with the type the table gives for its extension
InitType ==
    /\ \E stem \in Stems, e \in Extensions :
         px_in = [kind |-> "File",
                  path |-> IF e.ext = <<>> /\ stem /= <<"a", ".", "j", "s">>
                           THEN stem ELSE stem \o <<".">> \o e.ext,
                  table |-> IF e.ext = <<>> /\ stem = <<"a", ".", "j", "s">>
                            THEN "application/octet-stream" ELSE e.type]
    /\ px_out = [kind |-> "Types", detected |-> <<>>, got |-> <<>>]
    /\ IdleRoute
    /\ IdleConn
    /\ IdleLoop

\* models.rs FileResponse::new and response.rs serve_error_page: the type of
\* the file they send
DetectType ==
    /\ px_in /= NoneRec /\ px_in.kind = "File" /\ px_out.detected = <<>>
    /\ px_out' = [px_out EXCEPT !.detected = <<detect_content_type(px_in.path)>>]
    /\ UNCHANGED <<px_in, routeVars, connVars, loopVars>>

\* router.rs serve_static, lines 85-87: the Content-Type header it sets, if any
GetType ==
    /\ px_in /= NoneRec /\ px_in.kind = "File" /\ px_out.got = <<>>
    /\ px_out' = [px_out EXCEPT !.got = <<get_content_type(px_in.path)>>]
    /\ UNCHANGED <<px_in, routeVars, connVars, loopVars>>

NextType ==
    \/ DetectType
    \/ GetType

SpecType == InitType /\ [][NextType]_vars

\* C25: for every file path, the Content-Type attached to the file is the
\* value of the table for its extension, and application/octet-stream for
\* any other or missing extension; this for the files sent as a FileResponse
\* and for the files the Router serves.
C25_ContentTypeTable ==
    (px_in /= NoneRec /\ px_in.kind = "File") =>
        /\ px_out.detected /= <<>> => px_out.detected[1] = px_in.table
        /\ px_out.got /= <<>> =>
              /\ px_out.got[1] /= <<>>
              /\ px_out.got[1][1].media = px_in.table

\* the Content-Length header of a response is there and counts its body; the
\* body of a FileResponse is what can be read from its file, nothing when
\* the handle is a directory's
ExactLength(r) ==
    IF r.kind = "File"
    THEN r.content_length = (IF r.readable THEN r.file_len ELSE 0)
    ELSE r.content_length = <<r.body_len>>

\* C26: every response installed on a connection, built in memory or
\* streamed from a file, whatever its status, carries a Content-Length
\* header whose value is the number of body bytes that follow the blank line.
C26_ContentLength ==
    (conn.status = "Write" /\ conn.response /= NoneRec) =>
        ExactLength(conn.response)

\* ------------------------------------------------------------- config.rs
\* load_config on the lines of a configuration file.  A line is its
\* indentation (indent_level), whether its text starts with `-`, and the
\* text after that: key and value around the first `:` when there is one
\* (colon), else the whole text as value.  Comments and blank lines are
\* already removed (lines 280-285).

ConfigLine(lvl, dash, key, colon, value) ==
    [lvl |-> lvl, dash |-> dash, key |-> key, colon |-> colon, value |-> value]

ConfigErr == [ok |-> FALSE]

\* line.trim() == "<k>:"
IsKeyOnly(l, k) == ~l.dash /\ l.colon /\ l.key = k /\ l.value = ""

\* line.trim().starts_with("<k>:")
StartsWithKey(l, k) == ~l.dash /\ l.colon /\ l.key = k

\* str::parse::<u16>() and ::<usize>() on the values of the model
ParseNum(v) ==
    CASE v = "80" -> <<80>> [] v = "81" -> <<81>> [] v = "8080" -> <<8080>>
      [] v = "5" -> <<5>> [] v = "404" -> <<404>> [] OTHER -> <<>>

\* trim_matches('"') on the values of the model
Unquote(v) ==
    CASE v = "\"\"" -> "" [] v = "\"s\"" -> "s" [] v = "\"/\"" -> "/" [] OTHER -> v

\* str::to_lowercase on the values of the model
Lowercase(v) ==
    CASE v = "True" -> "true" [] v = "YES" -> "yes" [] v = "False" -> "false"
      [] OTHER -> v

\* config.rs lines 154-161: the list of methods of a route
MethodList(v) ==
    CASE v = "[GET]" -> <<"GET">> [] v = "[get, post]" -> <<"GET", "POST">>
      [] v = "[]" -> <<>> [] v = "" -> <<>> [] OTHER -> <<v>>

\* config.rs parse_ports, the loop of lines 51-65
RECURSIVE PortItems(_, _, _)
PortItems(lines, i, ports) ==
    IF i <= Len(lines) /\ lines[i].lvl = 6 /\ lines[i].dash
    THEN IF lines[i].colon \/ ParseNum(lines[i].value) = <<>> THEN ConfigErr
         ELSE PortItems(lines, i + 1, Append(ports, ParseNum(lines[i].value)[1]))
    ELSE IF ports = <<>> THEN ConfigErr
    ELSE [ok |-> TRUE, ports |-> ports, i |-> i]

\* config.rs parse_ports
parse_ports(lines, start) ==
    IF lines[start].lvl /= 4 \/ ~IsKeyOnly(lines[start], "ports") THEN ConfigErr
    ELSE PortItems(lines, start + 1, <<>>)

\* config.rs parse_error_pages, the loop of lines 80-96
RECURSIVE ErrorPageItems(_, _, _)
ErrorPageItems(lines, i, pages) ==
    IF i <= Len(lines) /\ lines[i].lvl = 6 /\ lines[i].colon
    THEN IF lines[i].dash \/ ParseNum(lines[i].key) = <<>> THEN ConfigErr
         ELSE ErrorPageItems(lines, i + 1,
                 Append(pages, [code |-> ParseNum(lines[i].key)[1],
                                path |-> Unquote(lines[i].value)]))
    ELSE [ok |-> TRUE, pages |-> pages, i |-> i]

\* config.rs parse_error_pages
parse_error_pages(lines, start) ==
    IF lines[start].lvl /= 4 \/ ~IsKeyOnly(lines[start], "error_pages") THEN ConfigErr
    ELSE ErrorPageItems(lines, start + 1, <<>>)

\* config.rs parse_route_field
parse_route_field(route, key, value) ==
    LET Set(r) == [ok |-> TRUE, route |-> r] IN
    CASE key = "path" -> Set([route EXCEPT !.path = Unquote(value)])
      [] key = "methods" -> Set([route EXCEPT !.methods = MethodList(value)])
      [] key = "root" -> Set([route EXCEPT !.root = Unquote(value)])
      [] key = "default_file" -> Set([route EXCEPT !.default_file = <<Unquote(value)>>])
      [] key = "redirect" -> Set([route EXCEPT !.redirect = <<Unquote(value)>>])
      [] key = "cgi" -> Set([route EXCEPT !.cgi = <<Unquote(value)>>])
      [] key = "list_directory" ->
           Set([route EXCEPT !.list_directory =
                  <<Lowercase(value) \in {"true", "yes", "1"}>>])
      [] OTHER -> ConfigErr

\* the key split_once(':') finds in the trimmed text of a line: the `-` of a
\* line that starts with one is part of it
KeyOf(l) == IF l.dash THEN "- " ELSE l.key

\* config.rs parse_route, lines 127-147: the fields at indentation 8, then the
\* validation
RECURSIVE RouteFields(_, _, _)
RouteFields(lines, i, route) ==
    IF i <= Len(lines) /\ lines[i].lvl = 8
    THEN IF ~lines[i].colon THEN RouteFields(lines, i + 1, route)
         ELSE LET Next1(f) == IF ~f.ok THEN ConfigErr
                              ELSE RouteFields(lines, i + 1, f.route)
              IN Next1(parse_route_field(route, KeyOf(lines[i]), lines[i].value))
    ELSE IF route.path = "" \/ route.methods = <<>> \/ route.root = ""
    THEN ConfigErr
    ELSE [ok |-> TRUE, route |-> route, i |-> i]

\* config.rs parse_route
parse_route(lines, start) ==
    LET route == Route("", <<>>, "", <<>>, <<>>, <<>>, <<>>)
        first == lines[start]
        First(f) == IF ~f.ok THEN ConfigErr
                    ELSE RouteFields(lines, start + 1, f.route)
    IN IF first.lvl /= 6 \/ ~first.dash THEN ConfigErr
       ELSE IF first.colon
       THEN First(parse_route_field(route, first.key, first.value))
       ELSE RouteFields(lines, start + 1, route)

\* config.rs parse_server, lines 244-248
RECURSIVE RouteItems(_, _, _)
RouteItems(lines, i, routes) ==
    IF i <= Len(lines) /\ lines[i].lvl = 6 /\ lines[i].dash
    THEN LET Next1(r) == IF ~r.ok THEN ConfigErr
                         ELSE RouteItems(lines, r.i, Append(routes, r.route))
         IN Next1(parse_route(lines, i))
    ELSE [ok |-> TRUE, routes |-> routes, i |-> i]

\* config.rs parse_server, lines 260-273: the ServerConfig with its defaults
BuildServer(f, i) ==
    IF f.host = <<>> THEN ConfigErr
    ELSE [ok |-> TRUE, i |-> i,
          server |->
            [server_name |-> IF f.server_name /= <<>> THEN f.server_name[1]
                             ELSE f.host[1],
             host |-> f.host[1],
             ports |-> IF f.ports = <<>> THEN <<80>> ELSE f.ports,
             default_server |-> f.default_server,
             error_pages |-> f.error_pages,
             client_max_body_size |->
                 IF f.client_max_body_size /= <<>> THEN f.client_max_body_size[1]
                 ELSE 1000000,
             root |-> f.root, routes |-> f.routes]]

\* config.rs parse_server, the loop of lines 206-258
RECURSIVE ServerFields(_, _, _)
ServerFields(lines, i, f) ==
    IF i > Len(lines) THEN BuildServer(f, i)
    ELSE
    LET l == lines[i]
        Ports(p) == IF ~p.ok THEN ConfigErr
                    ELSE ServerFields(lines, p.i, [f EXCEPT !.ports = p.ports])
        Pages(p) == IF ~p.ok THEN ConfigErr
                    ELSE ServerFields(lines, p.i, [f EXCEPT !.error_pages = p.pages])
        Routes(r) == IF ~r.ok THEN ConfigErr
                     ELSE ServerFields(lines, r.i, [f EXCEPT !.routes = r.routes])
    IN
    IF l.lvl = 4 /\ StartsWithKey(l, "server_name")
    THEN ServerFields(lines, i + 1, [f EXCEPT !.server_name = <<Unquote(l.value)>>])
    ELSE IF l.lvl = 4 /\ StartsWithKey(l, "host")
    THEN ServerFields(lines, i + 1, [f EXCEPT !.host = <<l.value>>])
    ELSE IF l.lvl = 4 /\ IsKeyOnly(l, "ports") THEN Ports(parse_ports(lines, i))
    ELSE IF l.lvl = 4 /\ StartsWithKey(l, "default_server")
    THEN ServerFields(lines, i + 1,
             [f EXCEPT !.default_server = Lowercase(l.value) \in {"true", "yes", "1"}])
    ELSE IF l.lvl = 4 /\ IsKeyOnly(l, "error_pages")
    THEN Pages(parse_error_pages(lines, i))
    ELSE IF l.lvl = 4 /\ StartsWithKey(l, "client_max_body_size")
    THEN IF ParseNum(l.value) = <<>> THEN ConfigErr
         ELSE ServerFields(lines, i + 1,
                  [f EXCEPT !.client_max_body_size = ParseNum(l.value)])
    ELSE IF l.lvl = 4 /\ StartsWithKey(l, "root")
    THEN ServerFields(lines, i + 1, [f EXCEPT !.root = Unquote(l.value)])
    ELSE IF l.lvl = 4 /\ IsKeyOnly(l, "routes")
    THEN Routes(RouteItems(lines, i + 1, <<>>))
    ELSE IF l.lvl = 2 /\ l.dash THEN BuildServer(f, i)
    ELSE IF l.lvl < 4 THEN BuildServer(f, i)
    ELSE ConfigErr

\* config.rs parse_server
parse_server(lines, start) ==
    LET l == lines[start]
        f == [server_name |-> <<>>, host |-> <<>>, default_server |-> FALSE,
              client_max_body_size |-> <<>>, root |-> "", ports |-> <<>>,
              error_pages |-> <<>>, routes |-> <<>>]
    IN IF ~(l.lvl = 2 /\ l.dash) \/ ~l.colon THEN ConfigErr
       ELSE IF l.key = "host"
       THEN ServerFields(lines, start + 1, [f EXCEPT !.host = <<l.value>>])
       ELSE IF l.key = "server_name"
       THEN ServerFields(lines, start + 1,
                         [f EXCEPT !.server_name = <<Unquote(l.value)>>])
       ELSE ConfigErr

\* config.rs load_config, the loop of lines 298-306
RECURSIVE ServerItems(_, _, _)
ServerItems(lines, i, servers) ==
    IF i > Len(lines)
    THEN IF servers = <<>> THEN ConfigErr ELSE [ok |-> TRUE, servers |-> servers]
    ELSE IF lines[i].lvl = 2 /\ lines[i].dash
    THEN LET Next1(r) == IF ~r.ok THEN ConfigErr
                         ELSE ServerItems(lines, r.i, Append(servers, r.server))
         IN Next1(parse_server(lines, i))
    ELSE ConfigErr

\* config.rs load_config
load_config(lines) ==
    IF lines = <<>> THEN ConfigErr
    ELSE IF lines[1].lvl /= 0 \/ lines[1].dash \/ ~lines[1].colon
            \/ lines[1].key /= "servers" \/ lines[1].value /= ""
    THEN ConfigErr
    ELSE ServerItems(lines, 2, <<>>)

\* -------------------------------------------- configuration specification
\* Configuration files are put together from optional parts, and loaded.

\* the lines of a key that may be left out: none, or the ones given
Optional(given) == {<<>>} \cup given

\* the route of a server: none, one with a root directory, the route of the
\* first scenario of the spec (root: ""), one with an unknown key
RouteParts ==
    LET head == << ConfigLine(4, FALSE, "routes", TRUE, ""),
                   ConfigLine(6, TRUE, "path", TRUE, "/"),
                   ConfigLine(8, FALSE, "methods", TRUE, "[GET]") >>
    IN { [kind |-> "none", lines |-> <<>>],
         [kind |-> "rooted",
          lines |-> head \o << ConfigLine(8, FALSE, "root", TRUE, "\"s\"") >>],
         [kind |-> "empty root",
          lines |-> head \o << ConfigLine(8, FALSE, "root", TRUE, "\"\"") >>],
         [kind |-> "unknown key",
          lines |-> head \o << ConfigLine(8, FALSE, "root", TRUE, "\"s\""),
                               ConfigLine(8, FALSE, "colour", TRUE, "red") >>] }

\* a configuration file with what it was put together from
ConfigFiles ==
    { [kind |-> "Config",
       servers |-> 1 + Len(second),
       name |-> name, ports |-> ports, size |-> size, flag |-> flag,
       unknown_server_key |-> extra /= <<>>,
       route |-> route.kind,
       lines |-> << ConfigLine(0, FALSE, "servers", TRUE, ""),
                    ConfigLine(2, TRUE, "host", TRUE, "h") >>
                 \o name \o ports \o size \o flag \o extra
                 \o << ConfigLine(4, FALSE, "root", TRUE, "w") >>
                 \o route.lines \o second] :
        name \in Optional({<< ConfigLine(4, FALSE, "server_name", TRUE, "n") >>}),
        ports \in Optional({<< ConfigLine(4, FALSE, "ports", TRUE, ""),
                               ConfigLine(6, TRUE, "", FALSE, "8080") >>}),
        size \in Optional({<< ConfigLine(4, FALSE, "client_max_body_size", TRUE, "5") >>}),
        flag \in Optional({<< ConfigLine(4, FALSE, "default_server", TRUE, "True") >>}),
        extra \in Optional({<< ConfigLine(4, FALSE, "colour", TRUE, "red") >>}),
        route \in RouteParts,
        second \in Optional({<< ConfigLine(2, TRUE, "host", TRUE, "g") >>}) }
    \cup { [kind |-> "Config", servers |-> 0, name |-> <<>>, ports |-> <<>>,
            size |-> <<>>, flag |-> <<>>, unknown_server_key |-> FALSE,
            route |-> "none",
            lines |-> << ConfigLine(0, FALSE, "servers", TRUE, "") >>] }

InitConfig ==
    /\ \E file \in ConfigFiles : px_in = file
    /\ px_out = NoneRec
    /\ IdleRoute
    /\ IdleConn
    /\ IdleLoop

\* main.rs line 16: the configuration is loaded
LoadConfig ==
    /\ px_in /= NoneRec /\ px_in.kind = "Config" /\ px_out = NoneRec
    /\ px_out' = [kind |-> "Loaded", config |-> load_config(px_in.lines)]
    /\ UNCHANGED <<px_in, routeVars, connVars, loopVars>>

SpecConfig == InitConfig /\ [][LoadConfig]_vars

\* C27: a configuration with no server entry is rejected; one with an unknown
\* server or route key is rejected; every other one, the route with root ""
\* of the spec's scenarios included, loads, and its first server has
\* ports [80], client_max_body_size 1000000, its host as server_name and
\* default_server false for each of these it leaves out.
C27_ConfigLoading ==
    (px_out /= NoneRec /\ px_out.kind = "Loaded") =>
        LET config == px_out.config IN
        IF px_in.servers = 0 \/ px_in.unknown_server_key
           \/ px_in.route = "unknown key"
        THEN ~config.ok
        ELSE /\ config.ok
             /\ Len(config.servers) = px_in.servers
             /\ px_in.ports = <<>> => config.servers[1].ports = <<80>>
             /\ px_in.size = <<>> =>
                   config.servers[1].client_max_body_size = 1000000
             /\ px_in.name = <<>> =>
                   config.servers[1].server_name = config.servers[1].host
             /\ px_in.flag = <<>> => ~config.servers[1].default_server

\* C28: the write driver never returns the "wait for readiness" result
\* (Some(false)) while the connection is still in Write with a finished
\* producer installed: the event whose write accepts the last byte of the
\* response also takes the on-finish decision.
C28_FinishInSameEvent ==
    ~(/\ conn.driver = "state" /\ conn.open /\ conn.status = "Write"
      /\ conn.response /= NoneRec /\ is_finished(conn.response)
      /\ result = SomeFalse)

\* --------------------------------------------- fair write specification
\* The write driver is called again when it asked for it (Some(true): the
\* loop goes round) and when the socket returned WouldBlock and the peer has
\* drained it since; a call that returned Some(false) without a WouldBlock is
\* followed by no event of its own.
WritableDue ==
    ~(result = SomeFalse /\ conn.response /= NoneRec /\ is_finished(conn.response))

\* a writable event that is due is handled
DueWriteEvent == WritableDue /\ WriteEvent

\* the peer drains the socket: a due write of a non-empty slice accepts bytes
DrainedWriteEvent == WritableDue /\ WriteEvent /\ sent' /= sent

SpecWriteFair ==
    SpecWrite /\ WF_vars(DueWriteEvent) /\ WF_vars(DrainedWriteEvent)

\* C29: with the peer draining the socket, a connection in Write eventually
\* leaves Write, to Read or to closed.
C29_WriteLiveness ==
    (conn.driver = "state" /\ conn.open /\ conn.status = "Write")
        ~> (~conn.open \/ conn.status = "Read")

\* C30: a read of 0 bytes or a fatal read or write error removes the
\* connection from the table in the iteration that handles the event, and no
\* connection with phase Finish is in the table after an iteration.
C30_Removal ==
    /\ (did.kind = "Event" /\ did.fatal) => did.token \notin DOMAIN srv.connections
    /\ \A t \in DOMAIN srv.connections :
          srv.connections[t].status.status /= "Finish"

\* a fatal event was handled, its connection is gone, and the loop goes on
\* serving another connection
C30_Witness ==
    /\ did.kind = "Event" /\ did.fatal
    /\ did.token \notin DOMAIN srv.connections
    /\ srv.state = "running"
    /\ srv.connections /= EmptyMap

\* C31: a FileResponse exposes no body byte and has read nothing of its file
\* before all header bytes are consumed; 0 <= buf_index <= buf_len <= 8192
\* and headers_index <= len(headers); what has been read of the file is what
\* one read of at most 8192 bytes put in the buffer after the bytes consumed
\* before it; a SimpleResponse has index <= len(data).
C31_ProducerInvariants ==
    (conn /= NoneRec /\ conn.response /= NoneRec) =>
        LET r == conn.response IN
        IF r.kind = "Simple" THEN 0 <= r.index /\ r.index <= r.data_len
        ELSE /\ 0 <= r.buf_index /\ r.buf_index <= r.buf_len
             /\ r.buf_len <= BufferSize
             /\ 0 <= r.headers_index /\ r.headers_index <= r.headers_len
             /\ r.reader_pos = r.buf_src + r.buf_len
             /\ ~r.headers_sent =>
                   /\ peek(r).src = "h"
                   /\ r.reader_pos = 0 /\ r.buf_len = 0 /\ ~r.finished

\* a FileResponse in the middle of a full buffer, after an earlier buffer
C31_Witness ==
    /\ conn /= NoneRec /\ conn.response /= NoneRec
    /\ conn.response.kind = "File"
    /\ conn.response.headers_sent
    /\ conn.response.buf_len = BufferSize
    /\ conn.response.buf_src > 0
    /\ 0 < conn.response.buf_index /\ conn.response.buf_index < BufferSize

\* the phase changes a connection may make in one step
PhaseChanges ==
    { <<"Read", "Read">>, <<"Write", "Write">>, <<"Read", "Write">>,
      <<"Write", "Read">>, <<"Write", "Finish">> }

\* connection t has just been accepted: phase Read, an empty request
\* builder, no response bytes, nothing read from its stream
FreshlyAccepted(t) ==
    /\ srv'.connections[t].status.status = "Read"
    /\ srv'.connections[t].status.request = HttpRequestBuilder_new
    /\ srv'.connections[t].status.response.data_len = 0
    /\ srv'.connections[t].stream.wire = NoneRec

\* connection t, in Write, keeps its request, the bytes of its stream and
\* the response it is sending (only the count of bytes written moves)
WriteKeepsRequest(t) ==
    srv.connections[t].status.status = "Write" =>
        /\ srv'.connections[t].status.request = srv.connections[t].status.request
        /\ srv'.connections[t].stream = srv.connections[t].stream
        /\ srv'.connections[t].status.response.data_len
              = srv.connections[t].status.response.data_len
        /\ srv'.connections[t].status.response.code
              = srv.connections[t].status.response.code

\* C32: an accepted connection starts in Read with an empty request builder
\* and no response; a connection changes phase only from Read to Write, from
\* Write to Read, or from Write to Finish or out of the table; in Write it
\* consumes no request byte and keeps the one response it is sending.
C32_PhaseTransitions ==
    [][\A t \in DOMAIN srv'.connections :
          IF t \notin DOMAIN srv.connections THEN FreshlyAccepted(t)
          ELSE /\ <<srv.connections[t].status.status,
                    srv'.connections[t].status.status>> \in PhaseChanges
               /\ WriteKeepsRequest(t)]_vars

\* a connection in Write with part of its response written, next to one
\* that is still reading
C32_Witness ==
    \E t, u \in DOMAIN srv.connections :
        /\ srv.connections[t].status.status = "Write"
        /\ srv.connections[t].status.response.index > 0
        /\ srv.connections[u].status.status = "Read"

\* ------------------------------------------- route lookup specification
\* A request is dispatched on a server that has a `/` route or has none, by
\* handle_read_state and by the Router.

LookupServers ==
    PathServers \cup { [server EXCEPT !.routes = <<RtUpload>>] : server \in PathServers }

LookupPaths ==
    { <<"/">>, <<"/", "n">>, <<"/", "u">>, <<"/", "u", "/", "n">>,
      <<"/", "u", "x">>, <<"*">> }

InitLookup ==
    /\ \E method \in AllMethods, path \in LookupPaths, server \in LookupServers :
         px_in = [kind |-> "Dispatch", server |-> server,
                  request |-> Request(method, path, <<"a">>, "", 0, <<>>, <<>>),
                  privileged |-> FALSE]
    /\ px_out = NoneRec
    /\ IdleRoute
    /\ IdleConn
    /\ IdleLoop

\* router.rs Router::handle_request, the Router loaded with the server's routes
RunRouter ==
    /\ px_in /= NoneRec /\ px_out = NoneRec
    /\ px_out' = Routed(handle_request(px_in.server.routes, px_in.request),
                        [config_routes |-> px_in.server.routes,
                         loaded_from |-> px_in.server])
    /\ UNCHANGED <<px_in, routeVars, connVars, loopVars>>

NextLookup == RunDispatch \/ RunRouter

SpecLookup == InitLookup /\ [][NextLookup]_vars

\* the paths of the routes of the server of the dispatch
LookupRoutePaths ==
    [i \in 1..Len(px_in.server.routes) |-> px_in.server.routes[i].path]

\* the dispatch found no route for the request path
NoRouteMatched ==
    IF px_out.kind = "Router"
    THEN find_route(LookupRoutePaths, px_in.request.path) = 0
    ELSE find_matching_route(LookupRoutePaths, px_in.request.path) = 0

\* the body is that of the server's 404 page, or a minimal one
NotFoundBody(server, resp) ==
    \/ resp.body_len = 0
    \/ resp = not_found
    \/ /\ OsRead(get_error_page_path(server, 404)).ok
       /\ resp.body_len = FileSize(OsRead(get_error_page_path(server, 404)).path)

\* C33: when no route of the server matches the request path, which happens
\* only on a server with no `/` route, the response is 404 with the body of
\* the 404 page or a minimal one, and no file named by the request is opened.
C33_RouteNotFound ==
    (px_out /= NoneRec /\ NoRouteMatched) =>
        /\ \A i \in 1..Len(px_in.server.routes) :
              px_in.server.routes[i].path /= <<"/">>
        /\ px_out.resp.code = 404
        /\ NotFoundBody(px_in.server, px_out.resp)
        /\ \A o \in px_out.ops : o.from = "config"

\* C34: a request is answered 413 only when its own body exceeds a limit:
\* that latched on the connection or that of the server selected for it.  A
\* request within the limits that follows a 413 on a kept-alive connection is
\* dispatched.
C34_TooLargePerRequest ==
    (conn.driver = "state" /\ conn.status = "Write" /\ did /= NoneRec
     /\ did.kind = "413") =>
        \/ /\ conn.max_body_size /= <<>>
           /\ acc_body_len(conn.request) > conn.max_body_size[1]
        \/ acc_body_len(conn.request) > did.server.client_max_body_size

\* C35: for every request of a connection, once its head is read, the limit
\* the admission check enforces is client_max_body_size of the server that
\* select_server returns for the Host of that request.
C35_PerRequestLimit ==
    (conn.driver = "state" /\ acc_header_done(conn.request)) =>
        conn.max_body_size = LimitOfHost(conn)

\* C36: the route whose list_directory and default_file handle_get applies
\* is the route find_matching_route selected for the request, whatever the
\* routes (duplicate paths, paths that differ by a trailing `/`).
C36_RouteConsistency ==
    (rt_sel > 0 /\ px_out.kind = "GetRoute" /\ px_out.route /= 0) =>
        px_out.route = rt_sel

\* ------------------------------------------------- clock specification
\* One connection served while time passes between the events.

\* the requests of the peer: one that keeps the connection, one that does
\* not, one with a body
ClockWires ==
    { Wire(Request("GET", <<"/">>, <<"a">>, "keep-alive", 0, <<>>, <<>>), TRUE),
      Wire(Request("GET", <<"/">>, <<"a">>, "", 0, <<>>, <<>>), TRUE),
      Wire(Request("POST", <<"/", "u", "/", "n">>, <<"a">>, "", 4,
                   <<"text", "/", "plain">>, <<>>), TRUE) }

\* the peer starts sending a request
ClockSend ==
    /\ conn.open /\ conn.status = "Read"
    /\ net.wire = NoneRec /\ net.nreq < MaxRequests
    /\ \E w \in ClockWires :
         net' = [net EXCEPT !.wire = w, !.head_left = w.head_len,
                            !.body_left = w.req.content_length,
                            !.nreq = net.nreq + 1]
    /\ did' = NoneRec
    /\ UNCHANGED <<conn, sent, result, routeVars, pathVars, loopVars>>

NextClock ==
    \/ ClockSend
    \/ ReadEvent
    \/ WriteEvent
    \/ ServerReadEvent
    \/ ServerWriteEvent
    \/ Tick

SpecClock == Init /\ [][NextClock]_vars

\* the step moved at least one byte: read from the stream in Read, accepted
\* by the socket in Write
Transferred ==
    \/ /\ conn.status = "Read"
       /\ net'.head_left + net'.body_left < net.head_left + net.body_left
    \/ /\ conn.status = "Write"
       /\ sent' /= sent

\* C37: the ttl of a connection changes only in a step that reads or writes
\* at least one byte (read_request and write_response, and handle_read of
\* server.rs); a read that returns WouldBlock, or an event handled without
\* moving a byte, leaves it as it was.
C37_TtlTracksIo ==
    [][ (conn.driver = "state" \/ conn.status = "Read") =>
           (conn'.ttl /= conn.ttl => Transferred) ]_vars

\* ---------------------------------------------------------------------
\* The loop hands an accepted connection to handle_read_state together
\* with the ListenerInfo of the listener it was accepted on.

\* ListenerInfo of the listener bound to addr: the servers that declare the
\* address, in configuration order, and the index of their default (the
\* first one flagged default_server, else the first)
ListenerInfo_new(config, addr) ==
    LET Here(s) == /\ s.host = addr.host
                   /\ \E i \in DOMAIN s.ports : s.ports[i] = addr.port
        Built(servers) ==
            [servers |-> servers,
             default_server_index |->
                 IF \E i \in DOMAIN servers : servers[i].default_server
                 THEN CHOOSE i \in DOMAIN servers :
                        /\ servers[i].default_server
                        /\ \A j \in 1..(i - 1) : ~servers[j].default_server
                 ELSE 1]
    IN Built(SelectSeq(config, Here))

\* the requests sent to a served connection: for a server of the listener
\* (kept alive), and for a host no server of the listener is named after
ServedWires ==
    { Wire(Request("GET", <<"/">>, <<"a">>, "keep-alive", 0, <<>>, <<>>), TRUE),
      Wire(Request("GET", <<"/">>, <<"b", ":", "80">>, "", 0, <<>>, <<>>), TRUE) }

\* a connection of the table starts being served; the lookup of the
\* ListenerInfo of its listener is an Option
Serve ==
    /\ srv.state = "running" /\ conn = NoneRec
    /\ \E t \in DOMAIN srv.connections, l \in srv.listeners, known \in BOOLEAN :
         px_in' = [kind |-> "Served", token |-> t,
                   listener_info |-> IF known
                                     THEN ListenerInfo_new(srv.config, l.addr)
                                     ELSE NoneRec]
    /\ conn' = NewConn
    /\ net' = Peer(FALSE, PartialWrite)
    /\ sent' = <<>> /\ result' = RNone /\ did' = NoneRec
    /\ UNCHANGED <<px_out, routeVars, loopVars>>

\* the peer of the served connection starts sending a request
ServedSend ==
    /\ conn /= NoneRec
    /\ conn.open /\ conn.status = "Read"
    /\ net.wire = NoneRec /\ net.nreq < MaxRequests
    /\ \E w \in ServedWires :
         net' = [net EXCEPT !.wire = w, !.head_left = w.head_len,
                            !.body_left = w.req.content_length,
                            !.nreq = net.nreq + 1]
    /\ did' = NoneRec
    /\ UNCHANGED <<conn, sent, result, routeVars, pathVars, loopVars>>

\* a readable event on the served connection: handle_read_state with the
\* ListenerInfo looked up for it; a panic ends the thread
ServedRead ==
    /\ conn /= NoneRec
    /\ conn.open /\ conn.status = "Read" /\ result /= Panic
    /\ \E ev \in ReadOutcomes, cgi_ok \in BOOLEAN :
       \E ch \in {Taken(ev)} :
       \E h \in {handle_read_state(conn, px_in.listener_info, ev, ch,
                                   net.privileged, cgi_ok)} :
          /\ conn' = IF h.res = RNone THEN [h.c EXCEPT !.open = FALSE] ELSE h.c
          /\ result' = h.res
          /\ did' = IF h.did = NoneRec THEN did ELSE h.did
          /\ net' = Consumed(ch)
          /\ sent' = IF h.c.status = "Write" THEN <<>> ELSE sent
    /\ UNCHANGED <<routeVars, pathVars, loopVars>>

\* a writable event on the served connection
ServedWrite ==
    /\ conn /= NoneRec
    /\ WriteEvent

NextServed ==
    \/ BindNext
    \/ Accept
    \/ Serve
    \/ ServedSend
    \/ ServedRead
    \/ ServedWrite

SpecServed == InitLoop /\ [][NextServed]_vars

\* the tokens of the listeners
ListenerTokens == { l.token : l \in srv.listeners }

C38_MissingListenerDropped ==
    /\ px_in /= NoneRec /\ px_in.listener_info = NoneRec
    /\ conn /= NoneRec /\ ~conn.open /\ result = RNone
    /\ net.nreq = 1 /\ net.head_left = 0

====
